---- MODULE Spec2Model ----
(***************************************************************************)
(* A model of phue, the Philips Hue client library (src/phue.py).          *)
(*                                                                         *)
(* The Bridge object resolves its address and credential on construction   *)
(* (Bridge.__init__ -> connect -> register_app) through a JSON credential  *)
(* file and, when that fails, one registration request.  Every operation   *)
(* of the library is synchronous and single threaded, so each operation is *)
(* one action; the file reads and writes and the HTTP requests it makes    *)
(* are kept, in order, in the log of the call.                             *)
(***************************************************************************)
EXTENDS Integers, Sequences, FiniteSets, TLC

VARIABLES
    file,     \* the credential file at config_file_path
    bridge,   \* the Bridge object the last construction returned, if any
    saved,    \* what the last successful registration wrote, if anything
    proxies,  \* the Light objects of the program, by object reference
    maps,     \* the attribute maps (dicts) the program holds, by reference
    pc,       \* where the program is: the statement the command line loop is
              \* at, or what a program that switches a Light has last done
    now,      \* the clock, datetime.now(UTC), in minutes
    call      \* the last operation: its arguments, I/O log and outcome

vars == <<file, bridge, saved, proxies, maps, pc, now, call>>

(***************************************************************************)
(* Values                                                                  *)
(***************************************************************************)

\* Python's None
None == "None"

\* bridge addresses a caller may supply
IPs == {"10.0.0.0", "10.0.0.1"}

\* credentials: caller supplied, stored in the file, or issued by the bridge
Tokens == {"fooo", "bar"}

\* the most entries a registration response carries
MaxLines == 2

\* the Python recursion limit, scaled down
MaxDepth == 3

\* error types of the bridge that register_app tells apart
LinkButtonNotPressed == 101
UnknownUsername == 7

\* an error type register_app has no branch for (1, "unauthorized user")
ErrorTypes == {LinkButtonNotPressed, UnknownUsername, 1}

NoExc == [cls |-> "none", id |-> None]
Exc(cls, id) == [cls |-> cls, id |-> id]

Event(mode, address) == [mode |-> mode, address |-> address]

Count(log, mode) == Cardinality({i \in 1..Len(log) : log[i].mode = mode})

(***************************************************************************)
(* The credential file.  kind "json" is a file holding a JSON object, kept *)
(* as the sequence of its members in file order; a member without a usable *)
(* "username" has username = None.                                         *)
(***************************************************************************)

FileOf(kind) == [kind |-> kind, config |-> <<>>]
JsonFile(config) == [kind |-> "json", config |-> config]

Member(key, username) == [key |-> key, username |-> username]

Members == {Member(k, u) : k \in IPs, u \in Tokens \cup {None}}

Configs ==
    {c \in UNION {[1..n -> Members] : n \in 0..Cardinality(IPs)} :
        \A i, j \in 1..Len(c) : c[i].key = c[j].key => i = j}

Files == {FileOf(k) : k \in {"missing", "unreadable", "malformed"}}
             \cup {JsonFile(c) : c \in Configs}

HasKey(config, key) == \E i \in 1..Len(config) : config[i].key = key

Lookup(config, key) ==
    config[CHOOSE i \in 1..Len(config) : config[i].key = key]

\* json.dumps turns the key of an object into a string: None becomes "null"
JsonKey(ip) == IF ip = None THEN "null" ELSE ip

(***************************************************************************)
(* Responses of the bridge to the registration request: a list of entries, *)
(* each {"success": {"username": t}}, {"error": {"type": n}}, or an object *)
(* with neither key.                                                       *)
(***************************************************************************)

Success(t) == [kind |-> "success", username |-> t, type |-> 0]
Error(n) == [kind |-> "error", username |-> None, type |-> n]
Neither == [kind |-> "neither", username |-> None, type |-> 0]

Entries ==
    {Success(t) : t \in Tokens} \cup {Error(n) : n \in ErrorTypes}
        \cup {Neither}

Responses == UNION {[1..n -> Entries] : n \in 0..MaxLines}

\* what a call of Bridge.request comes to: the parsed JSON, or an exception
Returns(json) == [raises |-> FALSE, cls |-> "none", json |-> json]
Raises(cls) == [raises |-> TRUE, cls |-> cls, json |-> <<>>]

RequestErrors == {"PhueRequestTimeout", "AttributeError"}

RegistrationOutcomes ==
    {Returns(r) : r \in Responses} \cup {Raises(c) : c \in RequestErrors}

(***************************************************************************)
(* Bridge.__init__, connect and register_app: a construction in progress   *)
(* is the record s of the object's fields, the file, and what it has done. *)
(***************************************************************************)

ConfigPath == <<"config_file_path">>
ApiRoot == <<"api">>

\* a faulty __init__ that does not keep the credential the caller supplied
FieldsUserDropped(aIp, aUser) ==
    [ip |-> aIp, username |-> None, file |-> file, saved |-> saved,
     log |-> <<>>, loads |-> <<>>, exc |-> NoExc, depth |-> 0, entered |-> 0]

\* Bridge.__init__: the fields as the caller supplied them
Fields(aIp, aUser) ==
    [ip |-> aIp, username |-> aUser, file |-> file, saved |-> saved,
     log |-> <<>>, loads |-> <<>>, exc |-> NoExc, depth |-> 0, entered |-> 0]

\* a faulty try block that looks the username up in the wrong place and never
\* finds it
LoadResultNoRecord(f, ip, username) ==
    CASE f.kind = "missing" -> "FileNotFoundError"
      [] f.kind = "unreadable" -> "PermissionError"
      [] f.kind = "malformed" -> "JSONDecodeError"
      [] OTHER ->
            IF ip = None /\ f.config = <<>> THEN "IndexError"
            ELSE IF username # None THEN "ok" ELSE "KeyError"

\* the exception the body of the with block raises, "ok" when it completes
LoadResult(f, ip, username) ==
    CASE f.kind = "missing" -> "FileNotFoundError"
      [] f.kind = "unreadable" -> "PermissionError"
      [] f.kind = "malformed" -> "JSONDecodeError"
      [] OTHER ->
            IF ip = None /\ f.config = <<>> THEN "IndexError"
            ELSE LET ip1 == IF ip = None THEN f.config[1].key ELSE ip
                 IN  IF username # None THEN "ok"
                     ELSE IF ~HasKey(f.config, ip1) THEN "KeyError"
                     ELSE IF Lookup(f.config, ip1).username = None THEN "KeyError"
                     ELSE "ok"

\* a faulty try block that takes the file's values over the caller's
read_config_overwrite(s) ==
    LET f == s.file
        res == LoadResult(f, s.ip, s.username)
        ip1 == IF f.kind = "json" /\ f.config # <<>>
               THEN f.config[1].key ELSE s.ip
        user1 == IF res = "ok" /\ HasKey(f.config, ip1)
                    /\ Lookup(f.config, ip1).username # None
                 THEN Lookup(f.config, ip1).username ELSE s.username
    IN  [s EXCEPT !.ip = ip1, !.username = user1,
                  !.log = Append(@, Event("open_r", ConfigPath)),
                  !.loads = Append(@, res)]

\* connect's try block: self.ip is assigned before self.username is looked up
read_config(s) ==
    LET f == s.file
        res == LoadResult(f, s.ip, s.username)
        ip1 == IF s.ip = None /\ f.kind = "json" /\ f.config # <<>>
               THEN f.config[1].key ELSE s.ip
        user1 == IF s.username = None /\ res = "ok"
                 THEN Lookup(f.config, ip1).username ELSE s.username
    IN  [s EXCEPT !.ip = ip1, !.username = user1,
                  !.log = Append(@, Event("open_r", ConfigPath)),
                  !.loads = Append(@, res)]

\* a faulty handler, "except IOError": only the errors of open are caught
CaughtIOError(cls) == cls \in {"FileNotFoundError", "PermissionError"}

\* "except Exception": every error of the try block is caught
Caught(cls) == cls \in {"FileNotFoundError", "PermissionError",
                        "JSONDecodeError", "IndexError", "KeyError"}

\* a faulty write that stores the bare token, {ip: t}, which connect cannot
\* read back as config[ip]['username']
write_config_bare(f, ip, line) == JsonFile(<<Member(JsonKey(ip), None)>>)

\* a faulty write that merges the new record into the records of the file
write_config_merge(f, ip, line) ==
    LET Other(m) == m.key # JsonKey(ip)
    IN  JsonFile(SelectSeq(f.config, Other)
                    \o <<Member(JsonKey(ip), line.username)>>)

\* f.write(json.dumps({self.ip: line['success']})) on the file f opened with
\* 'w', which truncates it
write_config(f, ip, line) == JsonFile(<<Member(JsonKey(ip), line.username)>>)

\* a faulty register_app that raises the generic exception for type 101
ErrorExceptionAllGeneric(type) ==
    IF type = LinkButtonNotPressed \/ type = UnknownUsername
    THEN Exc("PhueException", ToString(type))
    ELSE NoExc

\* a faulty register_app that raises the registration exception for type 7
ErrorExceptionAllRegistration(type) ==
    IF type = LinkButtonNotPressed \/ type = UnknownUsername
    THEN Exc("PhueRegistrationException", ToString(type))
    ELSE NoExc

\* the exception register_app raises for an error entry, NoExc for none
ErrorException(type) ==
    IF type = LinkButtonNotPressed
    THEN Exc("PhueRegistrationException", ToString(type))
    ELSE IF type = UnknownUsername
    THEN Exc("PhueException", ToString(type))
    ELSE NoExc

\* Bridge.request, as its caller sees it: one call, logged, that returns the
\* parsed response or raises.  HTTPConnection(None) raises AttributeError, so
\* a Bridge without an address gets no response.
request(ip, s, mode, address, outcome) ==
    [s EXCEPT !.log = Append(@, Event(mode, address)),
              !.exc = IF ip = None THEN Exc("AttributeError", None)
                      ELSE IF outcome.raises THEN Exc(outcome.cls, None)
                      ELSE @]

RECURSIVE connect(_, _, _)
RECURSIVE register_lines(_, _, _, _)

\* the loop of register_app over the entries of the response, from entry i
register_lines(s, outcome, i, depth) ==
    IF i > Len(outcome.json) THEN s
    ELSE LET line == outcome.json[i]
         IN  IF line.kind = "success"
             THEN LET w == [s EXCEPT
                              !.file = write_config(s.file, s.ip, line),
                              !.saved = [ip |-> s.ip, username |-> line.username],
                              !.log = Append(@, Event("open_w", ConfigPath))]
                      c == connect(w, outcome, depth + 1)
                  IN  IF c.exc # NoExc THEN c
                      ELSE register_lines(c, outcome, i + 1, depth)
             ELSE IF line.kind = "error" /\ ErrorException(line.type) # NoExc
                  THEN [s EXCEPT !.exc = ErrorException(line.type)]
                  ELSE register_lines(s, outcome, i + 1, depth)

register_app(s, outcome, depth) ==
    LET r == request(s.ip, s, "POST", ApiRoot, outcome)
    IN  IF r.exc # NoExc THEN r ELSE register_lines(r, outcome, 1, depth)

connect(s, outcome, depth) ==
    IF depth > MaxDepth THEN [s EXCEPT !.exc = Exc("RecursionError", None)]
    ELSE LET e == [s EXCEPT !.depth = IF depth > @ THEN depth ELSE @,
                            !.entered = @ + 1]
         IN  IF e.ip # None /\ e.username # None THEN e
             ELSE IF e.ip = None \/ e.username = None
             THEN LET r == read_config(e)
                      res == r.loads[Len(r.loads)]
                  IN  IF res = "ok" THEN r
                      ELSE IF Caught(res) THEN register_app(r, outcome, depth)
                      ELSE [r EXCEPT !.exc = Exc(res, None)]
             ELSE e

(***************************************************************************)
(* The state machine                                                       *)
(***************************************************************************)

NoBridge == [exists |-> FALSE, ip |-> None, username |-> None]
NoSave == [ip |-> None, username |-> None]
NoOutcome == Raises("unused")

\* whether the construction comes to a request that the bridge answers
Issues(aIp, aUser) ==
    connect(Fields(aIp, aUser), NoOutcome, 0).exc.cls = NoOutcome.cls

Idle == [op |-> "none"]

Init ==
    /\ file \in Files
    /\ bridge = NoBridge
    /\ saved = NoSave
    /\ proxies = <<>>
    /\ maps = <<>>
    /\ pc = None
    /\ now = 0
    /\ call = Idle

\* Bridge(ip=aIp, username=aUser): __init__ and the connect it ends with
Construct(aIp, aUser, outcome) ==
    LET s == connect(Fields(aIp, aUser), outcome, 0)
    IN  /\ call = Idle
        /\ file' = s.file
        /\ saved' = s.saved
        /\ bridge' = IF s.exc = NoExc
                     THEN [exists |-> TRUE, ip |-> s.ip, username |-> s.username]
                     ELSE NoBridge
        /\ call' = [op |-> "Bridge", argIp |-> aIp, argUser |-> aUser,
                    fileBefore |-> file, savedBefore |-> saved,
                    outcome |-> outcome, ip |-> s.ip, username |-> s.username,
                    log |-> s.log, loads |-> s.loads, exc |-> s.exc,
                    depth |-> s.depth, entered |-> s.entered]
        /\ UNCHANGED <<proxies, maps, pc, now>>

\* the caller takes the outcome of the call and goes on to its next statement
Proceed ==
    /\ call # Idle
    /\ call' = Idle
    /\ UNCHANGED <<file, bridge, saved, proxies, maps, pc, now>>

Next ==
    \/ \E aIp \in IPs \cup {None}, aUser \in Tokens \cup {None} :
          \E outcome \in IF Issues(aIp, aUser) THEN RegistrationOutcomes
                         ELSE {NoOutcome} :
              Construct(aIp, aUser, outcome)
    \/ Proceed

Spec == Init /\ [][Next]_vars

(***************************************************************************)
(* Lights: Bridge.get_light.                                               *)
(*                                                                         *)
(* What the bridge sends back is an input of each call.  A light resource  *)
(* is a JSON object with some top-level fields and, usually, a nested      *)
(* "state" object; the light list is a JSON object of id -> {name}, kept   *)
(* as a sequence in the order of its members; a bridge that cannot serve   *)
(* the request answers with a list of error entries.                       *)
(***************************************************************************)

LightIds == {"1", "2"}
LightNames == {"Kitchen", "Hall"}

TopFields == {"name", "type", "modelid"}
StateFields == {"bri", "on"}

\* a faulty get_light that reads only 'name' from the top level
StructuralNameOnly == {"name"}

\* the attributes get_light reads from the top level of the resource
Structural == {"name", "type", "uniqueid", "swversion"}

\* the attributes a caller asks for, None for the whole resource
Parameters ==
    {None} \cup TopFields \cup StateFields \cup {"uniqueid", "swversion"}

Resource(top, hasState, state) ==
    [json |-> "resource", top |-> top, hasState |-> hasState, state |-> state]
LightList(lights) == [json |-> "lights", lights |-> lights]
ErrorList == [json |-> "errors"]
NoJson == [json |-> "none"]

Resources ==
    {Resource(top, TRUE, st) : top \in SUBSET TopFields, st \in SUBSET StateFields}
        \cup {Resource(top, FALSE, {}) : top \in SUBSET TopFields}

Light(id, name) == [id |-> id, name |-> name]

\* the light lists of a bridge, its members in ascending order of id
LightLists ==
    {LightList(<<>>)}
        \cup {LightList(<<Light(i, n)>>) : i \in LightIds, n \in LightNames}
        \cup {LightList(<<Light("1", n), Light("2", m)>>) : n, m \in LightNames}

ResourceOutcomes ==
    {Returns(j) : j \in Resources \cup {ErrorList}}
        \cup {Raises(c) : c \in RequestErrors}

ListOutcomes ==
    {Returns(j) : j \in LightLists \cup {ErrorList}}
        \cup {Raises(c) : c \in RequestErrors}

\* the arguments of get_light: an integer id, a name, or None
IdArg(id) == [kind |-> "id", id |-> id]
NameArg(name) == [kind |-> "name", id |-> name]
NoArg == [kind |-> "none", id |-> None]

LightArgs == {IdArg(i) : i \in LightIds} \cup {NameArg(n) : n \in LightNames}
                \cup {NoArg}

\* the value of field k of the top level ("top") or of the nested state
FieldValue(where, k) == <<where, k>>

JsonResult(j) == [kind |-> "json", v |-> j]
ValueResult(v) == [kind |-> "value", v |-> v]
NoResult == [kind |-> "none", v |-> <<>>]

LightsPath(b) == <<"api", b.username, "lights">>
LightPath(b, id) == <<"api", b.username, "lights", id>>

\* a call of a facade method in progress
Started == [log |-> <<>>, exc |-> NoExc, result |-> NoResult, state |-> NoJson]

\* a faulty scan that compares names without regard to case
Folded(name) == IF name = "kitchen" THEN "Kitchen" ELSE name

FirstNamedAnyCase(resources, name) ==
    IF \E i \in 1..Len(resources) : Folded(resources[i].name) = Folded(name)
    THEN resources[CHOOSE i \in 1..Len(resources) :
                    /\ Folded(resources[i].name) = Folded(name)
                    /\ \A j \in 1..(i - 1) :
                          Folded(resources[j].name) # Folded(name)].id
    ELSE "False"

\* the id the scan of get_light_id_by_name returns: the key of the first
\* light of that name, False when there is none
FirstNamed(lights, name) ==
    IF \E i \in 1..Len(lights) : lights[i].name = name
    THEN lights[CHOOSE i \in 1..Len(lights) :
                    /\ lights[i].name = name
                    /\ \A j \in 1..(i - 1) : lights[j].name # name].id
    ELSE "False"

\* get_light_id_by_name: g with the list request logged, and the id found
get_light_id_by_name(b, g, name, o1) ==
    LET r == request(b.ip, g, "GET", LightsPath(b), o1)
    IN  IF r.exc # NoExc THEN [g |-> r, id |-> "False"]
        ELSE IF o1.json.json # "lights"
        THEN [g |-> [r EXCEPT !.exc = Exc("TypeError", None)], id |-> "False"]
        ELSE [g |-> r, id |-> FirstNamed(o1.json.lights, name)]

\* the part of get_light after the fetch of the resource
read_parameter(g, state, parameter) ==
    IF parameter = None THEN [g EXCEPT !.result = JsonResult(state)]
    ELSE IF state.json # "resource"
    THEN [g EXCEPT !.exc = Exc("TypeError", None)]
    ELSE IF parameter \in Structural
    THEN IF parameter \in state.top
         THEN [g EXCEPT !.result = ValueResult(FieldValue("top", parameter))]
         ELSE [g EXCEPT !.exc = Exc("KeyError", None)]
    ELSE IF state.hasState /\ parameter \in state.state
         THEN [g EXCEPT !.result = ValueResult(FieldValue("state", parameter))]
         ELSE [g EXCEPT !.exc = Exc("KeyError", None)]

\* get_light(light_id, parameter), o1 the outcome of the list request and o2
\* that of the request for the resource
get_light(b, light_id, parameter, o1, o2) ==
    IF b.username = None THEN [Started EXCEPT !.exc = Exc("TypeError", None)]
    ELSE LET n == IF light_id.kind = "name"
                  THEN get_light_id_by_name(b, Started, light_id.id, o1)
                  ELSE [g |-> Started, id |-> light_id.id]
         IN  IF n.g.exc # NoExc THEN n.g
             ELSE IF light_id.kind = "none"
             THEN LET r == request(b.ip, n.g, "GET", LightsPath(b), o1)
                  IN  IF r.exc # NoExc THEN r
                      ELSE [r EXCEPT !.result = JsonResult(o1.json)]
             ELSE LET r == request(b.ip, n.g, "GET", LightPath(b, n.id), o2)
                  IN  IF r.exc # NoExc THEN r
                      ELSE read_parameter([r EXCEPT !.state = o2.json],
                                          o2.json, parameter)

GetLight(light_id, parameter, o1, o2) ==
    LET g == get_light(bridge, light_id, parameter, o1, o2)
    IN  /\ call = Idle
        /\ bridge.exists
        /\ call' = [op |-> "get_light", light_id |-> light_id,
                    parameter |-> parameter, log |-> g.log, exc |-> g.exc,
                    result |-> g.result, state |-> g.state]
        /\ UNCHANGED <<file, bridge, saved, proxies, maps, pc, now>>

\* the outcomes of the requests a call of get_light comes to make
ListOutcomesFor(light_id) ==
    IF light_id.kind = "id" THEN {NoOutcome} ELSE ListOutcomes

ResourceOutcomesFor(light_id, o1) ==
    IF light_id.kind = "none" \/ (light_id.kind = "name" /\ o1.raises)
       \/ (light_id.kind = "name" /\ o1.json.json # "lights")
    THEN {NoOutcome} ELSE ResourceOutcomes

\* a Bridge constructed with address and credential, as a caller that uses
\* the lights has it
InitLights ==
    /\ file = FileOf("missing")
    /\ saved = NoSave
    /\ proxies = <<>>
    /\ maps = <<>>
    /\ pc = None
    /\ now = 0
    /\ call = Idle
    /\ \E u \in Tokens :
          bridge = [exists |-> TRUE, ip |-> "10.0.0.0", username |-> u]

NextLights ==
    \/ \E light_id \in LightArgs, parameter \in Parameters :
          \E o1 \in ListOutcomesFor(light_id) :
              \E o2 \in ResourceOutcomesFor(light_id, o1) :
                  GetLight(light_id, parameter, o1, o2)
    \/ Proceed

SpecLights == InitLights /\ [][NextLights]_vars

(***************************************************************************)
(* Properties of Bridge construction                                       *)
(***************************************************************************)

IsCtor == call.op = "Bridge"
Posts == Count(call.log, "POST")
Reads == Count(call.log, "open_r")
Writes == Count(call.log, "open_w")

\* the first attempt to load the credential file failed
LoadFailed == IsCtor /\ call.loads # <<>> /\ call.loads[1] # "ok"
LoadOk == IsCtor /\ call.loads # <<>> /\ call.loads[1] = "ok"

\* the registration request was made and returned a response
GotResponse == LoadFailed /\ ~call.outcome.raises
Response == call.outcome.json

\* an entry at which register_app writes the file or raises
Decisive(e) ==
    \/ e.kind = "success"
    \/ e.kind = "error" /\ e.type \in {LinkButtonNotPressed, UnknownUsername}

\* e is the first decisive entry of the response
FirstDecisive(resp, e) ==
    \E i \in 1..Len(resp) :
        /\ resp[i] = e
        /\ \A j \in 1..(i - 1) : ~Decisive(resp[j])

Contains(resp, e) == \E i \in 1..Len(resp) : resp[i] = e

\* C1: credential round trip.  When the file holds what the last successful
\* registration for address A wrote, with credential c, Bridge(ip=A) returns
\* with credential c and makes no registration request.
C1_RoundTrip ==
    \A A \in IPs, c \in Tokens :
        (/\ IsCtor
         /\ call.savedBefore = [ip |-> A, username |-> c]
         /\ call.argIp = A
         /\ call.argUser = None)
        => /\ call.exc = NoExc
           /\ bridge.exists
           /\ bridge.ip = A
           /\ bridge.username = c
           /\ Posts = 0

C1_Witness ==
    /\ IsCtor
    /\ call.savedBefore.username \in Tokens
    /\ call.argIp = call.savedBefore.ip
    /\ call.argIp \in IPs
    /\ call.argUser = None
    /\ bridge.username = call.savedBefore.username
    /\ Reads = 1

\* C2: registration success.  When the load fails and the response is one
\* success entry carrying token t, the file is written exactly once and then
\* holds the single record {address: {"username": t}}, whatever it held.
C2_RegistrationWritesSingleRecord ==
    \A t \in Tokens :
        (GotResponse /\ Response = <<Success(t)>>)
        => /\ Writes = 1
           /\ file = JsonFile(<<Member(call.ip, t)>>)
           /\ call.argIp # None => call.ip = call.argIp
           /\ saved.username = t

C2_Witness ==
    /\ GotResponse
    /\ Len(Response) = 1
    /\ Response[1].kind = "success"
    /\ call.argIp \in IPs
    /\ call.fileBefore.kind = "json"
    /\ \E i \in 1..Len(call.fileBefore.config) :
          /\ call.fileBefore.config[i].key # call.argIp
          /\ call.fileBefore.config[i].username # None
    /\ file = JsonFile(<<Member(call.argIp, Response[1].username)>>)
    /\ Writes = 1

\* C3 as stated: a response that contains an error entry of type 101 makes
\* construction raise PhueRegistrationException(101), with no file write and
\* no further registration request.
C3_Original ==
    (GotResponse /\ Contains(Response, Error(LinkButtonNotPressed)))
    => /\ call.exc = Exc("PhueRegistrationException", "101")
       /\ Writes = 0
       /\ Posts = 1

\* C3, amended: the same, when the error entry of type 101 is the first
\* decisive entry of the response (no success entry and no error entry of
\* type 7 comes before it).
C3_LinkButtonNotPressed ==
    (GotResponse /\ FirstDecisive(Response, Error(LinkButtonNotPressed)))
    => /\ call.exc = Exc("PhueRegistrationException", "101")
       /\ Writes = 0
       /\ file = call.fileBefore
       /\ Posts = 1
       /\ ~bridge.exists

C3_Witness ==
    /\ GotResponse
    /\ Response = <<Error(LinkButtonNotPressed)>>
    /\ call.exc.cls = "PhueRegistrationException"
    /\ Posts = 1

\* C4 as stated: a response that contains an error entry of type 7 makes
\* construction raise the generic PhueException(7), with no file write and
\* no retry.
C4_Original ==
    (GotResponse /\ Contains(Response, Error(UnknownUsername)))
    => /\ call.exc = Exc("PhueException", "7")
       /\ Writes = 0
       /\ Posts = 1

\* C4, amended: the same, when the error entry of type 7 is the first
\* decisive entry of the response (no success entry and no error entry of
\* type 101 comes before it).
C4_UnknownUsername ==
    (GotResponse /\ FirstDecisive(Response, Error(UnknownUsername)))
    => /\ call.exc = Exc("PhueException", "7")
       /\ call.exc.cls # "PhueRegistrationException"
       /\ Writes = 0
       /\ file = call.fileBefore
       /\ Posts = 1
       /\ ~bridge.exists

C4_Witness ==
    /\ GotResponse
    /\ Response = <<Error(UnknownUsername)>>
    /\ call.exc.cls = "PhueException"
    /\ Posts = 1

C6_Original ==
    IsCtor =>
        \/ call.exc # NoExc
        \/ call.ip # None /\ call.username # None

\* C7: fast path.  With both address and credential supplied, construction
\* reads and writes no file, makes no request, and keeps both values.
C7_FastPath ==
    (IsCtor /\ call.argIp # None /\ call.argUser # None)
    => /\ call.log = <<>>
       /\ call.exc = NoExc
       /\ file = call.fileBefore
       /\ bridge.exists
       /\ bridge.ip = call.argIp
       /\ bridge.username = call.argUser

C7_Witness ==
    /\ IsCtor
    /\ call.argIp \in IPs
    /\ call.argUser \in Tokens
    /\ file.kind = "json"
    /\ HasKey(file.config, call.argIp)
    /\ Lookup(file.config, call.argIp).username \in Tokens \ {call.argUser}
    /\ bridge.username = call.argUser

LoadErrors == {"FileNotFoundError", "PermissionError", "JSONDecodeError",
               "IndexError", "KeyError"}

\* C8: load failures are not distinguished.  A missing, unreadable or
\* malformed file, and a file without a usable record, each lead to exactly
\* one registration request, made right after the failed read, and none of
\* them reaches the caller as an error of its own.
C8_LoadFailuresFolded ==
    \A k \in LoadErrors :
        (IsCtor /\ call.loads # <<>> /\ call.loads[1] = k)
        => /\ Len(call.log) >= 2
           /\ call.log[1].mode = "open_r"
           /\ call.log[2] = Event("POST", ApiRoot)
           /\ Posts = 1
           /\ call.exc.cls \notin LoadErrors

C8_Witness ==
    /\ IsCtor
    /\ call.loads # <<>>
    /\ call.loads[1] = "JSONDecodeError"
    /\ Posts = 1
    /\ call.exc = NoExc
    /\ bridge.exists

\* C9: when the load succeeds, exactly the values the caller did not supply
\* come from the file, and a supplied value is never replaced.
C9_FillMissing ==
    LoadOk =>
        LET cfg == call.fileBefore.config
            ip1 == IF call.argIp # None THEN call.argIp ELSE cfg[1].key
        IN  /\ call.exc = NoExc
            /\ Posts = 0
            /\ Writes = 0
            /\ bridge.exists
            /\ bridge.ip = ip1
            /\ bridge.username =
                  IF call.argUser # None THEN call.argUser
                  ELSE Lookup(cfg, ip1).username

C9_Witness ==
    /\ LoadOk
    /\ call.argIp = None
    /\ call.argUser \in Tokens
    /\ bridge.ip = call.fileBefore.config[1].key
    /\ Lookup(call.fileBefore.config, bridge.ip).username
          \in Tokens \ {call.argUser}
    /\ bridge.username = call.argUser

(***************************************************************************)
(* Properties of get_light                                                 *)
(***************************************************************************)

\* get_light fetched the resource of a light and the bridge sent an object
FetchedResource == call.op = "get_light" /\ call.state.json = "resource"

\* C10: get_light of one light returns the whole decoded object when no
\* attribute is given, the top-level field for name, type, uniqueid and
\* swversion, the field of the nested state for any other attribute, and
\* raises KeyError, returning nothing, when that field is absent.
C10_GetLight ==
    FetchedResource =>
        LET p == call.parameter
            R == call.state
        IN  IF p = None
            THEN call.exc = NoExc /\ call.result = JsonResult(R)
            ELSE IF p \in {"name", "type", "uniqueid", "swversion"}
            THEN IF p \in R.top
                 THEN /\ call.exc = NoExc
                      /\ call.result = ValueResult(FieldValue("top", p))
                 ELSE call.exc.cls = "KeyError" /\ call.result = NoResult
            ELSE IF R.hasState /\ p \in R.state
                 THEN /\ call.exc = NoExc
                      /\ call.result = ValueResult(FieldValue("state", p))
                 ELSE call.exc.cls = "KeyError" /\ call.result = NoResult

C10_Witness ==
    /\ FetchedResource
    /\ call.light_id.kind = "id"
    /\ call.parameter = "type"
    /\ call.state.top = {"name", "type"}
    /\ call.state.hasState
    /\ call.state.state = {"bri", "on"}
    /\ call.result = ValueResult(FieldValue("top", "type"))
    /\ Len(call.log) = 1

(***************************************************************************)
(* Lights: Bridge.set_light.                                               *)
(*                                                                         *)
(* A JSON value is kept with its type, so that True, 1 and "1" differ.     *)
(* The bridge answers a PUT with a list of entries, one per attribute it   *)
(* was asked to change: a success entry or an error entry with its         *)
(* description.                                                            *)
(***************************************************************************)

Null == [type |-> "null", b |-> FALSE, n |-> 0, s |-> ""]
Boolean(b) == [type |-> "bool", b |-> b, n |-> 0, s |-> ""]
Number(n) == [type |-> "int", b |-> FALSE, n |-> n, s |-> ""]
String(s) == [type |-> "str", b |-> FALSE, n |-> 0, s |-> s]

\* the most targets of one call of set_light
MaxTargets == 3

ListArg(items) == [kind |-> "list", id |-> None, items |-> items]

Singles == {IdArg(i) : i \in LightIds} \cup {NameArg(n) : n \in LightNames}

\* lists of ids, and lists that hold a name next to an id
TargetLists ==
    UNION {[1..n -> {IdArg(i) : i \in LightIds}] : n \in 0..MaxTargets}
        \cup {<<NameArg(n), IdArg("2")>> : n \in LightNames}
        \cup {<<IdArg("1"), NameArg(n)>> : n \in LightNames}

Targets == Singles \cup {ListArg(t) : t \in TargetLists}

\* repr of a list element: an int bare, a string in quotes
Repr(light) ==
    IF light.kind = "name" THEN "'" \o light.id \o "'" ELSE light.id

RECURSIVE Joined(_, _)
Joined(items, i) ==
    IF i > Len(items) THEN ""
    ELSE IF i = Len(items) THEN Repr(items[i])
    ELSE Repr(items[i]) \o ", " \o Joined(items, i + 1)

\* str(light_id)
str(light_id) ==
    IF light_id.kind = "list" THEN "[" \o Joined(light_id.items, 1) \o "]"
    ELSE light_id.id

Updated == [kind |-> "success"]
Refused == [kind |-> "error"]

PutResult(entries) == [json |-> "results", entries |-> entries]

PutResults == {PutResult(<<Updated>>), PutResult(<<Refused>>), PutResult(<<>>)}

PutOutcomes ==
    {Returns(j) : j \in PutResults} \cup {Raises(c) : c \in RequestErrors}

\* the attributes and values a caller sets
Settings ==
    {[parameter |-> "on", value |-> Boolean(v)] : v \in BOOLEAN}
        \cup {[parameter |-> "bri", value |-> Number(254)]}
        \cup {[parameter |-> "name", value |-> String(n)] : n \in LightNames}

TransitionTimes == {Null, Number(5)}

\* data = {parameter: value}, with 'transitiontime' when one is given
Data(parameter, value, transitiontime) ==
    [parameter |-> parameter, value |-> value,
     transitiontime |-> transitiontime]

StatePath(b, id) == <<"api", b.username, "lights", id, "state">>

\* a call of set_light in progress: its requests, the responses appended to
\* result, and the warnings it logged
Setting == [log |-> <<>>, exc |-> NoExc, result |-> <<>>, warnings |-> 0]

\* self.request(mode, address, data): the request with the body it carries,
\* and what came of it
send(ip, s, mode, address, data, outcome) ==
    LET r == request(ip, s, mode, address, outcome)
    IN  [r EXCEPT !.log[Len(r.log)] =
                      [mode |-> mode, address |-> address, data |-> data,
                       response |-> outcome]]

\* a faulty set_light that raises when the bridge reports an error
appended_raising(r, json) ==
    LET a == [r EXCEPT !.result = Append(@, json)]
    IN  IF json.entries = <<>> THEN [a EXCEPT !.exc = Exc("IndexError", None)]
        ELSE IF json.entries[1].kind = "error"
        THEN [a EXCEPT !.exc = Exc("PhueException", None)]
        ELSE a

\* result.append(response) and the look at result[-1][0] that follows it
appended(r, json) ==
    LET a == [r EXCEPT !.result = Append(@, json)]
    IN  IF json.entries = <<>> THEN [a EXCEPT !.exc = Exc("IndexError", None)]
        ELSE IF json.entries[1].kind = "error"
        THEN [a EXCEPT !.warnings = @ + 1]
        ELSE a

\* the light list of a bulk call as a sequence of its elements
Array(light_id) ==
    IF light_id.kind = "list" THEN light_id.items ELSE <<light_id>>

\* the body of the loop of set_light for the element light, o the outcomes
\* of the requests it makes: o.list of the name lookup, o.put of the PUT
set_one(b, g, light_id, light, parameter, data, o) ==
    IF b.username = None THEN [g EXCEPT !.exc = Exc("TypeError", None)]
    ELSE IF parameter = "name"
    THEN LET r == send(b.ip, g, "PUT", LightPath(b, str(light_id)), data, o.put)
         IN  IF r.exc # NoExc THEN r ELSE appended(r, o.put.json)
    ELSE LET n == IF light.kind = "name"
                  THEN get_light_id_by_name(b, g, light.id, o.list)
                  ELSE [g |-> g, id |-> light.id]
         IN  IF n.g.exc # NoExc THEN n.g
             ELSE LET r == send(b.ip, n.g, "PUT", StatePath(b, n.id), data,
                                o.put)
                  IN  IF r.exc # NoExc THEN r ELSE appended(r, o.put.json)

RECURSIVE set_each(_, _, _, _, _, _, _)
set_each(b, g, light_id, i, parameter, data, outs) ==
    IF i > Len(Array(light_id)) THEN g
    ELSE LET r == set_one(b, g, light_id, Array(light_id)[i], parameter, data,
                          outs[i])
         IN  IF r.exc # NoExc THEN r
             ELSE set_each(b, r, light_id, i + 1, parameter, data, outs)

\* set_light(light_id, parameter, value, transitiontime)
set_light(b, light_id, parameter, value, transitiontime, outs) ==
    set_each(b, Setting, light_id, 1, parameter,
             Data(parameter, value, transitiontime), outs)

\* the outcomes of the requests made for one element of the light list
OutcomesOf(light, parameter) ==
    {[list |-> o1, put |-> o2] :
        o1 \in IF light.kind = "name" /\ parameter # "name"
               THEN ListOutcomes ELSE {NoOutcome},
        o2 \in PutOutcomes}

RECURSIVE OutcomeSeqs(_, _)
OutcomeSeqs(items, parameter) ==
    IF items = <<>> THEN {<<>>}
    ELSE {<<o>> \o rest : o \in OutcomesOf(Head(items), parameter),
                          rest \in OutcomeSeqs(Tail(items), parameter)}

OutcomesFor(light_id, parameter) == OutcomeSeqs(Array(light_id), parameter)

SetLight(light_id, setting, transitiontime, outs) ==
    LET g == set_light(bridge, light_id, setting.parameter, setting.value,
                       transitiontime, outs)
    IN  /\ call = Idle
        /\ bridge.exists
        /\ call' = [op |-> "set_light", light_id |-> light_id,
                    parameter |-> setting.parameter, value |-> setting.value,
                    transitiontime |-> transitiontime,
                    log |-> g.log, exc |-> g.exc, result |-> g.result,
                    warnings |-> g.warnings]
        /\ UNCHANGED <<file, bridge, saved, proxies, maps, pc, now>>

(***************************************************************************)
(* Name lookups.  The lists of sensors and of groups have the shape of the *)
(* list of lights: an object of id -> {name}.                              *)
(***************************************************************************)

SensorsPath(b) == <<"api", b.username, "sensors">>
GroupsPath(b) == <<"api", b.username, "groups">>

\* the names a caller looks up: those of the resources, and one that
\* differs from a resource's name in case only
LookupNames == LightNames \cup {"kitchen"}

\* the scan of get_sensor_id_by_name and get_group_id_by_name over the list
\* that get_sensor() and get_group() fetch
id_by_name(b, g, path, name, o1) ==
    LET r == request(b.ip, g, "GET", path, o1)
    IN  IF r.exc # NoExc THEN [g |-> r, id |-> "False"]
        ELSE IF o1.json.json # "lights"
        THEN [g |-> [r EXCEPT !.exc = Exc("TypeError", None)], id |-> "False"]
        ELSE [g |-> r, id |-> FirstNamed(o1.json.lights, name)]

get_sensor_id_by_name(b, g, name, o1) ==
    id_by_name(b, g, SensorsPath(b), name, o1)

get_group_id_by_name(b, g, name, o1) ==
    id_by_name(b, g, GroupsPath(b), name, o1)

\* what the caller of a lookup gets
Looked(n) ==
    [n.g EXCEPT !.result = IF n.g.exc = NoExc THEN ValueResult(n.id)
                           ELSE NoResult]

id_lookup(kind, b, name, o1) ==
    IF b.username = None THEN [Started EXCEPT !.exc = Exc("TypeError", None)]
    ELSE IF kind = "light"
    THEN Looked(get_light_id_by_name(b, Started, name, o1))
    ELSE IF kind = "sensor"
    THEN Looked(get_sensor_id_by_name(b, Started, name, o1))
    ELSE Looked(get_group_id_by_name(b, Started, name, o1))

Resolved(kind, name, o1) ==
    LET g == id_lookup(kind, bridge, name, o1)
    IN  /\ call = Idle
        /\ bridge.exists
        /\ call' = [op |-> "id_by_name", kind |-> kind, name |-> name,
                    outcome |-> o1, log |-> g.log, exc |-> g.exc,
                    result |-> g.result]
        /\ UNCHANGED <<file, bridge, saved, proxies, maps, pc, now>>

GetLightIdByName(name, o1) == Resolved("light", name, o1)
GetSensorIdByName(name, o1) == Resolved("sensor", name, o1)
GetGroupIdByName(name, o1) == Resolved("group", name, o1)

(***************************************************************************)
(* The facade operations that make one request and hand its result on.     *)
(***************************************************************************)

\* what the bridge answers to such a request: the JSON of the resource or
\* of the results, or a list of error entries
Reply == [json |-> "reply"]

FacadeOutcomes ==
    {Returns(Reply), Returns(ErrorList)} \cup {Raises(c) : c \in RequestErrors}

ResourceIds == {"1", "2"}

\* return self.request(mode, address, data)
forwarded(b, mode, address, outcome) ==
    LET r == request(b.ip, Started, mode, address, outcome)
    IN  IF r.exc # NoExc THEN r
        ELSE [r EXCEPT !.result = JsonResult(outcome.json)]

\* a faulty handler that lets the exception through
handled_not(r) == r

\* try: return ... except: logger.debug(...): the call returns None
handled(r) ==
    IF r.exc # NoExc THEN [r EXCEPT !.exc = NoExc, !.result = NoResult] ELSE r

Under(b, rest) == <<"api", b.username>> \o rest

get_group_list(b, o) == forwarded(b, "GET", GroupsPath(b), o)
get_sensor_list(b, o) == forwarded(b, "GET", SensorsPath(b), o)
create_group(b, o) == forwarded(b, "POST", GroupsPath(b), o)
delete_group(b, id, o) == forwarded(b, "DELETE", Under(b, <<"groups", id>>), o)
get_scene(b, o) == forwarded(b, "GET", Under(b, <<"scenes">>), o)
activate_scene(b, id, o) ==
    forwarded(b, "PUT", Under(b, <<"groups", id, "action">>), o)
delete_scene(b, id, o) ==
    handled(forwarded(b, "DELETE", Under(b, <<"scenes", id>>), o))
get_schedule(b, id, o) ==
    IF id = None THEN forwarded(b, "GET", Under(b, <<"schedules">>), o)
    ELSE forwarded(b, "GET", Under(b, <<"schedules", id>>), o)
create_schedule(b, o) == forwarded(b, "POST", Under(b, <<"schedules">>), o)
set_schedule_attributes(b, id, o) ==
    forwarded(b, "PUT", Under(b, <<"schedules", id>>), o)
delete_schedule(b, id, o) ==
    forwarded(b, "DELETE", Under(b, <<"schedules", id>>), o)

FacadeOps ==
    {"get_group", "get_sensor", "create_group", "delete_group", "get_scene",
     "activate_scene", "delete_scene", "get_schedule", "create_schedule",
     "set_schedule_attributes", "delete_schedule"}

facade(op, b, id, o) ==
    CASE op = "get_group" -> get_group_list(b, o)
      [] op = "get_sensor" -> get_sensor_list(b, o)
      [] op = "create_group" -> create_group(b, o)
      [] op = "delete_group" -> delete_group(b, id, o)
      [] op = "get_scene" -> get_scene(b, o)
      [] op = "activate_scene" -> activate_scene(b, id, o)
      [] op = "delete_scene" -> delete_scene(b, id, o)
      [] op = "get_schedule" -> get_schedule(b, id, o)
      [] op = "create_schedule" -> create_schedule(b, o)
      [] op = "set_schedule_attributes" -> set_schedule_attributes(b, id, o)
      [] op = "delete_schedule" -> delete_schedule(b, id, o)

\* one call of a facade operation on the resource id
Facade(op, id, o) ==
    LET g == facade(op, bridge, id, o)
    IN  /\ call = Idle
        /\ bridge.exists
        /\ call' = [op |-> op, id |-> id, outcome |-> o, log |-> g.log,
                    exc |-> g.exc, result |-> g.result]
        /\ UNCHANGED <<file, bridge, saved, proxies, maps, pc, now>>

\* a caller makes its next call when the last one has returned
NextFacade ==
    \/ /\ call = Idle
       /\ \E light_id \in Targets, setting \in Settings,
             transitiontime \in TransitionTimes :
             \E outs \in OutcomesFor(light_id, setting.parameter) :
                 SetLight(light_id, setting, transitiontime, outs)
    \/ /\ call = Idle
       /\ \E name \in LookupNames, o1 \in ListOutcomes :
             \/ GetLightIdByName(name, o1)
             \/ GetSensorIdByName(name, o1)
             \/ GetGroupIdByName(name, o1)
    \/ /\ call = Idle
       /\ \E op \in FacadeOps, id \in ResourceIds \cup {None},
             o \in FacadeOutcomes :
             Facade(op, id, o)
    \/ Proceed

SpecFacade == InitLights /\ [][NextFacade]_vars

(***************************************************************************)
(* Light: the proxy of one light.  Its properties read through get_light   *)
(* and write through set_light, and keep the last value in a field.        *)
(***************************************************************************)

\* Light.__init__
NewLight(light_id) ==
    [light_id |-> light_id, _name |-> Null, _on |-> Null,
     _brightness |-> Null, _colortemp |-> Null, _hue |-> Null,
     _saturation |-> Null, transitiontime |-> Null,
     _reset_bri_after_on |-> Null]

\* the truth value Python takes a value for
Truthy(v) ==
    \/ v.type = "bool" /\ v.b
    \/ v.type = "int" /\ v.n # 0
    \/ v.type = "str" /\ v.s # ""

\* a property access on the Light l in progress
Acting(l) ==
    [light |-> l, log |-> <<>>, exc |-> NoExc, result |-> Null,
     warnings |-> 0]

\* a resource of the bridge that has the state attributes a Light reads,
\* and one that has none of them
FullResource == Resource({"name"}, TRUE, {"on", "bri", "ct"})
BareResource == Resource({"name"}, TRUE, {})

ReadOutcomes ==
    {Returns(FullResource), Returns(BareResource), Returns(ErrorList)}
        \cup {Raises(c) : c \in RequestErrors}

\* Light._get(parameter), v the value the resource has for the parameter
_get(b, x, parameter, o2, v) ==
    LET g == get_light(b, x.light.light_id, parameter, NoOutcome, o2)
    IN  [x EXCEPT !.log = @ \o g.log,
                  !.exc = g.exc,
                  !.result = IF g.exc = NoExc THEN v ELSE Null]

\* Light._set(parameter, value)
_set(b, x, parameter, value, o) ==
    LET l == x.light
        marked == IF /\ l.transitiontime # Null
                     /\ parameter = "on"
                     /\ value = Boolean(FALSE)
                  THEN [l EXCEPT !._reset_bri_after_on = Boolean(TRUE)]
                  ELSE l
        g == set_light(b, l.light_id, parameter, value, l.transitiontime,
                       <<[list |-> NoOutcome, put |-> o]>>)
    IN  [x EXCEPT !.light = marked,
                  !.log = @ \o g.log,
                  !.exc = g.exc,
                  !.warnings = @ + g.warnings]

\* a faulty brightness setter that writes full brightness
set_brightness_full(b, x, value, o) ==
    _set(b, [x EXCEPT !.light._brightness = value], "bri", Number(254), o)

\* brightness setter
set_brightness(b, x, value, o) ==
    _set(b, [x EXCEPT !.light._brightness = value], "bri", value, o)

\* the on setter before its write: turning off a light that was on marks
\* the Light when it has a transition time
noted(x, value) ==
    IF Truthy(x.light._on) /\ value = Boolean(FALSE)
    THEN [x EXCEPT !.light._reset_bri_after_on =
                       Boolean(x.light.transitiontime # Null),
                   !.warnings =
                       IF x.light.transitiontime # Null THEN @ + 1 ELSE @]
    ELSE x

\* self.brightness = self._brightness; self._reset_bri_after_on = False
reset_brightness(r) ==
    IF r.exc # NoExc THEN r
    ELSE [r EXCEPT !.light._reset_bri_after_on = Boolean(FALSE)]

\* the on setter after its write s: the brightness is reset when a light
\* that was turned off with a transition time is turned on
restored(b, s, value, o2) ==
    IF /\ s.light._on = Boolean(FALSE)
       /\ value = Boolean(TRUE)
       /\ Truthy(s.light._reset_bri_after_on)
    THEN reset_brightness(set_brightness(b, [s EXCEPT !.warnings = @ + 1],
                                         s.light._brightness, o2))
    ELSE s

\* self._on = value
turned(c, value) ==
    IF c.exc # NoExc THEN c ELSE [c EXCEPT !.light._on = value]

written(b, s, value, o2) ==
    IF s.exc # NoExc THEN s ELSE turned(restored(b, s, value, o2), value)

\* on setter, o1 the outcome of the PUT of 'on' and o2 that of the PUT of
\* the brightness, when it comes to one
set_on(b, x, value, o1, o2) ==
    written(b, _set(b, noted(x, value), "on", value, o1), value, o2)

\* on getter, v the value of 'on' in the resource
get_on(b, x, o2, v) ==
    LET r == _get(b, x, "on", o2, v)
    IN  IF r.exc # NoExc THEN r ELSE [r EXCEPT !.light._on = v]

\* brightness getter
get_brightness(b, x, o2, v) ==
    LET r == _get(b, x, "bri", o2, v)
    IN  IF r.exc # NoExc THEN r ELSE [r EXCEPT !.light._brightness = v]

\* hue setter; int(value) of an integer is the integer
set_hue(b, x, value, o) ==
    _set(b, [x EXCEPT !.light._hue = value], "hue", value, o)

\* saturation setter
set_saturation(b, x, value, o) ==
    _set(b, [x EXCEPT !.light._saturation = value], "sat", value, o)

\* the range of mireds the colortemp setter warns outside of
MinMireds == 154
MaxMireds == 500

\* colortemp setter: a value outside the range is warned about and written
set_colortemp(b, x, value, o) ==
    LET w == IF value.n < MinMireds \/ value.n > MaxMireds
             THEN [x EXCEPT !.warnings = @ + 1] ELSE x
    IN  _set(b, [w EXCEPT !.light._colortemp = value], "ct", value, o)

\* a faulty conversion that cuts the quotient off
TruncatedQuotient(a, d) == a \div d

\* int(round(a / d)) for positive d: the integer nearest to the quotient,
\* the even one of two that are equally near
RoundedQuotient(a, d) ==
    LET q == a \div d
        rem == a % d
    IN  IF 2 * rem < d THEN q
        ELSE IF 2 * rem > d THEN q + 1
        ELSE IF q % 2 = 0 THEN q ELSE q + 1

Million == 1000000

\* the range of Kelvin the colortemp_k setter clamps to
MinKelvin == 2000
MaxKelvin == 6500

\* a faulty clamp to a wider range
ClampedWide(value) ==
    IF value > 10000 THEN 10000 ELSE IF value < 1000 THEN 1000 ELSE value

\* a faulty clamp to the range of a lamp that starts at 2200 K
ClampedNarrow(value) ==
    IF value > MaxKelvin THEN MaxKelvin
    ELSE IF value < 2200 THEN 2200
    ELSE value

Clamped(value) ==
    IF value > MaxKelvin THEN MaxKelvin
    ELSE IF value < MinKelvin THEN MinKelvin
    ELSE value

\* colortemp_k setter, for an integer value
set_colortemp_k(b, x, value, o) ==
    LET w == IF Clamped(value) # value THEN [x EXCEPT !.warnings = @ + 1]
             ELSE x
        colortemp_mireds == RoundedQuotient(Million, Clamped(value))
    IN  set_colortemp(b, w, Number(colortemp_mireds), o)

\* colortemp_k getter, v the value of 'ct' in the resource
get_colortemp_k(b, x, o2, v) ==
    LET r == _get(b, x, "ct", o2, v)
    IN  IF r.exc # NoExc THEN r
        ELSE LET c == [r EXCEPT !.light._colortemp = v]
             IN  IF v.n = 0
                 THEN [c EXCEPT !.exc = Exc("ZeroDivisionError", None),
                                !.result = Null]
                 ELSE [c EXCEPT !.result =
                                    Number(RoundedQuotient(Million, v.n))]

(***************************************************************************)
(* The statements of a program that holds one Light, made with the id of   *)
(* the light: Light(bridge, 1).                                            *)
(***************************************************************************)

\* the statement op on the Light p, x what came of it
Access(p, op, value, x) ==
    /\ call = Idle
    /\ bridge.exists
    /\ proxies' = [proxies EXCEPT ![p] = x.light]
    /\ call' = [op |-> op, ref |-> p, value |-> value, before |-> proxies[p],
                log |-> x.log, exc |-> x.exc, result |-> x.result,
                warnings |-> x.warnings]
    /\ UNCHANGED <<file, bridge, saved, maps, pc, now>>

SetOn(p, value, o1, o2) ==
    Access(p, "on=", value, set_on(bridge, Acting(proxies[p]), value, o1, o2))

GetOn(p, o2, v) ==
    Access(p, "on", Null, get_on(bridge, Acting(proxies[p]), o2, v))

SetBrightness(p, value, o) ==
    Access(p, "brightness=", value,
           set_brightness(bridge, Acting(proxies[p]), value, o))

GetBrightness(p, o2, v) ==
    Access(p, "brightness", Null,
           get_brightness(bridge, Acting(proxies[p]), o2, v))

\* light.transitiontime = value: an attribute, no property
SetTransitiontime(p, value) ==
    /\ call = Idle
    /\ proxies[p].transitiontime # value
    /\ proxies' = [proxies EXCEPT ![p].transitiontime = value]
    /\ UNCHANGED <<file, bridge, saved, maps, pc, call, now>>

SetHue(p, value, o) ==
    Access(p, "hue=", value, set_hue(bridge, Acting(proxies[p]), value, o))

SetSaturation(p, value, o) ==
    Access(p, "saturation=", value,
           set_saturation(bridge, Acting(proxies[p]), value, o))

SetColortemp(p, value, o) ==
    Access(p, "colortemp=", value,
           set_colortemp(bridge, Acting(proxies[p]), value, o))

SetColortempK(p, value, o) ==
    Access(p, "colortemp_k=", Number(value),
           set_colortemp_k(bridge, Acting(proxies[p]), value, o))

GetColortempK(p, o2, v) ==
    Access(p, "colortemp_k", Null,
           get_colortemp_k(bridge, Acting(proxies[p]), o2, v))

\* the values a program sets and the bridge reports
OnValues == {Boolean(TRUE), Boolean(FALSE)}
Brightnesses == {Number(1), Number(254)}
Hues == {Number(0), Number(65536)}
Saturations == {Number(254), Number(255)}
BrightnessesSet == {Number(254), Number(255)}
Mireds == {Number(153), Number(500), Number(501)}
Kelvins == {0 - 1, 0, 1999, 2000, 2700, 3200, 6500, 6501, Million}
MiredsRead == {Number(0), Number(154), Number(370)}

InitProxy ==
    /\ file = FileOf("missing")
    /\ saved = NoSave
    /\ call = Idle
    /\ bridge = [exists |-> TRUE, ip |-> "10.0.0.0", username |-> "fooo"]
    /\ proxies = <<NewLight(IdArg("1"))>>
    /\ maps = <<>>
    /\ pc = None
    /\ now = 0

\* a program that switches the light and sets its brightness
NextProxy ==
    \/ /\ call = Idle
       /\ \E value \in OnValues, o1, o2 \in PutOutcomes :
             SetOn(1, value, o1, o2)
    \/ /\ call = Idle
       /\ \E o2 \in ReadOutcomes, v \in OnValues : GetOn(1, o2, v)
    \/ /\ call = Idle
       /\ \E value \in Brightnesses, o \in PutOutcomes :
             SetBrightness(1, value, o)
    \/ /\ call = Idle
       /\ \E o2 \in ReadOutcomes, v \in Brightnesses : GetBrightness(1, o2, v)
    \/ \E value \in TransitionTimes : SetTransitiontime(1, value)
    \/ Proceed

SpecProxy == InitProxy /\ [][NextProxy]_vars

\* a program that sets the colour of the light
NextColour ==
    \/ /\ call = Idle
       /\ \E o \in PutOutcomes :
             \/ \E value \in Hues : SetHue(1, value, o)
             \/ \E value \in Saturations : SetSaturation(1, value, o)
             \/ \E value \in BrightnessesSet : SetBrightness(1, value, o)
             \/ \E value \in Mireds : SetColortemp(1, value, o)
             \/ \E value \in Kelvins : SetColortempK(1, value, o)
    \/ /\ call = Idle
       /\ \E o2 \in ReadOutcomes, v \in MiredsRead : GetColortempK(1, o2, v)
    \/ \E value \in TransitionTimes : SetTransitiontime(1, value)
    \/ Proceed

SpecColour == InitProxy /\ [][NextColour]_vars


(***************************************************************************)
(* The light caches of the Bridge: lights_by_id, from the integer id to    *)
(* the Light, and lights_by_name, from the name to the Light.  A Light is  *)
(* held by reference: its index in proxies.                                *)
(***************************************************************************)

\* int(light) of a key of the light list
int(key) == CHOOSE n \in 0..9 : ToString(n) = key

\* the light lists of a bridge, which gives each light a name of its own
NamedLightLists ==
    {l \in LightLists :
        \A i, j \in 1..Len(l.lights) :
            l.lights[i].name = l.lights[j].name => i = j}

CacheOutcomes ==
    {Returns(j) : j \in NamedLightLists \cup {ErrorList}}
        \cup {Raises(c) : c \in RequestErrors}

\* a faulty test that takes the caches for filled
unfilled_never(b) == FALSE

\* a faulty test that takes the caches for empty
unfilled_always(b) == TRUE

\* self.lights_by_id == {}
unfilled(b) == DOMAIN b.lights_by_id = {}

\* d[key] = value on a dict d
Put(d, key, value) ==
    [k \in DOMAIN d \cup {key} |-> IF k = key THEN value ELSE d[k]]

\* del d[key]
Remove(d, key) == [k \in DOMAIN d \ {key} |-> d[k]]

\* the Bridge, its Lights and a call in progress
Held(b, heap, g) == [bridge |-> b, heap |-> heap, g |-> g]

\* the loop of get_light_objects over the light list, from its i-th light
RECURSIVE fill(_, _, _)
fill(h, list, i) ==
    IF i > Len(list) THEN h
    ELSE LET ref == Len(h.heap) + 1
             b == h.bridge
         IN  fill(Held([b EXCEPT
                          !.lights_by_id =
                              Put(b.lights_by_id, int(list[i].id), ref),
                          !.lights_by_name =
                              Put(b.lights_by_name, list[i].name, ref)],
                       Append(h.heap, NewLight(IdArg(list[i].id))),
                       h.g),
                  list, i + 1)

\* the fetch of get_light_objects
fetched(h, o1) ==
    LET r == request(h.bridge.ip, h.g, "GET", LightsPath(h.bridge), o1)
    IN  IF r.exc # NoExc THEN Held(h.bridge, h.heap, r)
        ELSE IF o1.json.json # "lights"
        THEN Held(h.bridge, h.heap, [r EXCEPT !.exc = Exc("TypeError", None)])
        ELSE fill(Held(h.bridge, h.heap, r), o1.json.lights, 1)

\* get_light_objects up to its return
filled(h, o1) == IF unfilled(h.bridge) THEN fetched(h, o1) ELSE h

RefsResult(v) == [kind |-> "refs", v |-> v]

\* the lights in sorted id order
RECURSIVE Sorted(_, _)
Sorted(by_id, ids) ==
    IF ids = {} THEN <<>>
    ELSE LET least == CHOOSE n \in ids : \A k \in ids : n <= k
         IN  <<by_id[least]>> \o Sorted(by_id, ids \ {least})

\* what get_light_objects(mode) returns
collection(b, mode) ==
    CASE mode = "id" -> RefsResult(b.lights_by_id)
      [] mode = "name" -> RefsResult(b.lights_by_name)
      [] mode = "list" ->
            RefsResult(Sorted(b.lights_by_id, DOMAIN b.lights_by_id))

returned(h, v) ==
    IF h.g.exc # NoExc THEN h
    ELSE Held(h.bridge, h.heap, [h.g EXCEPT !.result = v])

get_light_objects(h, mode, o1) ==
    LET f == filled(h, o1)
    IN  returned(f, collection(f.bridge, mode))

\* str(key) of the key of an indexed access
KeyText(key) == IF key.type = "int" THEN ToString(key.n) ELSE key.s

\* the lookups of __getitem__: by id, then by name, then KeyError
item(b, key) ==
    IF key.type = "int" /\ key.n \in DOMAIN b.lights_by_id
    THEN [found |-> TRUE, ref |-> b.lights_by_id[key.n]]
    ELSE IF key.type = "str" /\ key.s \in DOMAIN b.lights_by_name
    THEN [found |-> TRUE, ref |-> b.lights_by_name[key.s]]
    ELSE [found |-> FALSE, ref |-> 0]

looked_up(h, key) ==
    IF h.g.exc # NoExc THEN h
    ELSE IF item(h.bridge, key).found
    THEN Held(h.bridge, h.heap,
              [h.g EXCEPT !.result = RefsResult(item(h.bridge, key).ref)])
    ELSE Held(h.bridge, h.heap,
              [h.g EXCEPT !.exc = Exc("KeyError", KeyText(key))])

\* bridge[key]
getitem(h, key, o1) == looked_up(filled(h, o1), key)

\* name getter, v the name in the resource
get_name(b, x, o2, v) ==
    LET r == _get(b, x, "name", o2, v)
    IN  IF r.exc # NoExc THEN r ELSE [r EXCEPT !.light._name = v]

\* self._name = value; self._set('name', self._name)
renamed(b, a, value, o) ==
    IF a.exc # NoExc THEN a
    ELSE _set(b, [a EXCEPT !.light._name = value], "name", value, o)

\* the read of self.name for the key of the name cache
reread(b, s, o2, v) == IF s.exc # NoExc THEN s ELSE get_name(b, s, o2, v)

Cached(x, by_name) == [x |-> x, by_name |-> by_name]

\* self.bridge.lights_by_name[self.name] = self
\* del self.bridge.lights_by_name[old_name]
recached(by_name, ref, old_name, n) ==
    IF n.exc # NoExc THEN Cached(n, by_name)
    ELSE IF old_name.s \in DOMAIN Put(by_name, n.result.s, ref)
    THEN Cached(n, Remove(Put(by_name, n.result.s, ref), old_name.s))
    ELSE Cached([n EXCEPT !.exc = Exc("KeyError", old_name.s)],
                Put(by_name, n.result.s, ref))

\* the name setter after its read a of the old name
set_name_from(b, ref, a, value, o, o2, v2) ==
    recached(b.lights_by_name, ref, a.result,
             reread(b, renamed(b, a, value, o), o2, v2))

\* name setter of the Light ref: v1 the name the bridge reports before the
\* write, o the outcome of the write, v2 the name it reports after it
set_name(b, ref, x, value, o1, v1, o, o2, v2) ==
    set_name_from(b, ref, get_name(b, x, o1, v1), value, o, o2, v2)

(***************************************************************************)
(* The statements of a program that takes its Lights from the Bridge.      *)
(***************************************************************************)

\* a call on the Bridge that may fill the caches
Filling(op, arg, h, o1) ==
    /\ call = Idle
    /\ bridge.exists
    /\ bridge' = h.bridge
    /\ proxies' = h.heap
    /\ call' = [op |-> op, arg |-> arg, before |-> bridge, log |-> h.g.log,
                outcome |-> IF h.g.log = <<>> THEN NoOutcome ELSE o1,
                exc |-> h.g.exc, result |-> h.g.result]
    /\ UNCHANGED <<file, saved, maps, pc, now>>

GetLightObjects(mode, o1) ==
    Filling("get_light_objects", String(mode),
            get_light_objects(Held(bridge, proxies, Started), mode, o1), o1)

GetItem(key, o1) ==
    Filling("getitem", key, getitem(Held(bridge, proxies, Started), key, o1),
            o1)

\* light.name = value, where light is the Light ref
SetName(ref, value, o1, v1, o, o2, v2) ==
    LET c == set_name(bridge, ref, Acting(proxies[ref]), value, o1, v1, o, o2,
                      v2)
    IN  /\ call = Idle
        /\ bridge.exists
        /\ ref \in DOMAIN proxies
        /\ bridge' = [bridge EXCEPT !.lights_by_name = c.by_name]
        /\ proxies' = [proxies EXCEPT ![ref] = c.x.light]
        /\ call' = [op |-> "name=", ref |-> ref, value |-> value,
                    before |-> bridge, log |-> c.x.log, exc |-> c.x.exc,
                    old_name |-> v1, new_name |-> v2]
        /\ UNCHANGED <<file, saved, maps, pc, now>>

Modes == {"id", "name", "list"}

Keys == {Number(n) : n \in 1..3} \cup {String(n) : n \in LightNames}
            \cup {String("1")}

Names == {String(n) : n \in LightNames}

\* the bridge answers the reads of a name with the resource, or fails
NameOutcomes == {Returns(FullResource), Raises("PhueRequestTimeout")}

\* and the write of it with its result, or fails
RenameOutcomes ==
    {Returns(PutResult(<<Updated>>)), Returns(PutResult(<<Refused>>)),
     Raises("PhueRequestTimeout")}

InitCaches ==
    /\ file = FileOf("missing")
    /\ saved = NoSave
    /\ call = Idle
    /\ bridge = [exists |-> TRUE, ip |-> "10.0.0.0", username |-> "fooo",
                 lights_by_id |-> <<>>, lights_by_name |-> <<>>]
    /\ proxies = <<>>
    /\ maps = <<>>
    /\ pc = None
    /\ now = 0

NextCaches ==
    \/ /\ call = Idle
       /\ \E mode \in Modes, o1 \in CacheOutcomes : GetLightObjects(mode, o1)
    \/ /\ call = Idle
       /\ \E key \in Keys, o1 \in CacheOutcomes : GetItem(key, o1)
    \/ /\ call = Idle
       /\ \E ref \in DOMAIN proxies, value, v1, v2 \in Names,
             o1, o2 \in NameOutcomes, o \in RenameOutcomes :
             SetName(ref, value, o1, v1, o, o2, v2)
    \/ Proceed

SpecCaches == InitCaches /\ [][NextCaches]_vars

(***************************************************************************)
(* Properties of set_light, of the lookups and of the facade operations    *)
(***************************************************************************)

IsSet == call.op = "set_light"
Puts == Count(call.log, "PUT")

\* the targets of the call are integer ids: one id, or a list of ids
IdTargets ==
    /\ IsSet
    /\ \A i \in 1..Len(Array(call.light_id)) :
          Array(call.light_id)[i].kind = "id"

\* the bridge answered the request e with a list of results
Answered(e) == ~e.response.raises /\ e.response.json.entries # <<>>

ReportsError(json) == json.entries # <<>> /\ json.entries[1].kind = "error"

C12_Original ==
    (/\ IsSet
     /\ \E i \in 1..Len(call.log) :
           /\ call.log[i].mode = "PUT"
           /\ call.log[i].response = Raises("PhueRequestTimeout"))
    => Puts = Len(Array(call.light_id))

IsFacade == call.op \in FacadeOps

\* C13 as stated: when the request of a facade operation fails, the failure
\* reaches the caller as an exception and the request is made once.
C13_Original ==
    (IsFacade /\ call.outcome.raises)
    => /\ call.exc = Exc(call.outcome.cls, None)
       /\ Len(call.log) = 1

IsLookup == call.op = "id_by_name"

ListPath(kind) ==
    CASE kind = "light" -> LightsPath(bridge)
      [] kind = "sensor" -> SensorsPath(bridge)
      [] kind = "group" -> GroupsPath(bridge)

\* C20: name resolution.  A lookup whose list request the bridge answers
\* with the list makes that one GET and returns, without raising, the id of
\* a resource of exactly that name, and False when no resource has it.
C20_NameResolution ==
    (IsLookup /\ ~call.outcome.raises /\ call.outcome.json.json = "lights")
    => LET list == call.outcome.json.lights
           Same(i) == list[i].name = call.name
       IN  /\ call.exc = NoExc
           /\ call.log = <<Event("GET", ListPath(call.kind))>>
           /\ call.result.kind = "value"
           /\ IF \E i \in 1..Len(list) : Same(i)
              THEN \E i \in 1..Len(list) : Same(i) /\ call.result.v = list[i].id
              ELSE call.result.v = "False"

C20_Witness ==
    /\ IsLookup
    /\ call.kind = "group"
    /\ call.name = "kitchen"
    /\ ~call.outcome.raises
    /\ call.outcome.json.json = "lights"
    /\ \E i \in 1..Len(call.outcome.json.lights) :
          call.outcome.json.lights[i].name = "Kitchen"
    /\ call.result = ValueResult("False")

(***************************************************************************)
(* Properties of the Light proxy                                           *)
(***************************************************************************)

TurnsOn == call.op = "on=" /\ call.value = Boolean(TRUE)
TurnsOff == call.op = "on=" /\ call.value = Boolean(FALSE)

\* the Light was turned off through the proxy with a transition time, and
\* nothing has read 'on' as true since
OffWithTransition(l) ==
    l._on = Boolean(FALSE) /\ l._reset_bri_after_on = Boolean(TRUE)

PutOf(parameter, value, l) ==
    [mode |-> "PUT",
     address |-> IF parameter = "name" THEN LightPath(bridge, str(l.light_id))
                 ELSE StatePath(bridge, str(l.light_id)),
     data |-> Data(parameter, value, l.transitiontime)]

SameRequest(e, w) ==
    e.mode = w.mode /\ e.address = w.address /\ e.data = w.data

SetsKelvin == call.op = "colortemp_k="
GetsKelvin == call.op = "colortemp_k"

Distance(a, b) == IF a > b THEN a - b ELSE b - a

\* C15: Kelvin round trip.  Setting colortemp_k to 2700 writes 370 mireds,
\* and reading colortemp_k when the bridge reports 370 mireds gives 2703: the
\* round trip of 2700 K ends within 3 of it, not within 1.
C15_KelvinRoundTrip ==
    /\ (SetsKelvin /\ call.value = Number(2700))
       => /\ Len(call.log) = 1
          /\ call.log[1].data.value = Number(370)
          /\ proxies[call.ref]._colortemp = Number(370)
    /\ (GetsKelvin /\ call.exc = NoExc
            /\ proxies[call.ref]._colortemp = Number(370))
       => /\ call.result = Number(2703)
          /\ Distance(call.result.n, 2700) = 3

C15_Witness ==
    /\ GetsKelvin
    /\ call.before._colortemp = Number(370)
    /\ proxies[call.ref]._colortemp = Number(370)
    /\ call.result = Number(2703)

\* C15 as stated: back from the mireds that 2700 K was written as, the
\* Kelvin read is within 1 of 2700.
C15_Original ==
    (GetsKelvin /\ call.exc = NoExc
        /\ call.before._colortemp = Number(370)
        /\ proxies[call.ref]._colortemp = Number(370))
    => Distance(call.result.n, 2700) <= 1

\* m is an integer nearest to a / d
Nearest(m, a, d) == 2 * Distance(a, m * d) <= d

\* C16: for every integer given to the colortemp_k setter there is one
\* write, of 'ct' with the integer nearest to 1e6 / k for k the input
\* clamped to [2000, 6500], which lies in [154, 500]; the setter raises
\* nothing of its own: when the bridge answers the write it returns.
C16_KelvinClamped ==
    SetsKelvin
    => LET k == IF call.value.n > 6500 THEN 6500
                ELSE IF call.value.n < 2000 THEN 2000
                ELSE call.value.n
       IN  /\ Len(call.log) = 1
           /\ call.log[1].mode = "PUT"
           /\ call.log[1].data.parameter = "ct"
           /\ call.log[1].data.value.type = "int"
           /\ Nearest(call.log[1].data.value.n, 1000000, k)
           /\ call.log[1].data.value.n >= 154
           /\ call.log[1].data.value.n <= 500
           /\ Answered(call.log[1]) => call.exc = NoExc
           /\ call.exc # NoExc
                  => \/ call.exc = Exc("IndexError", None)
                     \/ /\ call.log[1].response.raises
                        /\ call.exc = Exc(call.log[1].response.cls, None)

C16_Witness ==
    /\ SetsKelvin
    /\ call.value = Number(0)
    /\ call.log[1].data.value = Number(500)
    /\ call.warnings = 1
    /\ call.exc = NoExc

InDomain(parameter, n) ==
    CASE parameter = "hue" -> n >= 0 /\ n <= 65535
      [] parameter = "sat" -> n >= 0 /\ n <= 254
      [] parameter = "bri" -> n >= 0 /\ n <= 254
      [] parameter = "ct" -> n >= 154 /\ n <= 500

\* C17 as stated: every value the hue, saturation, brightness and colortemp
\* setters write lies in the domain of its attribute.
C17_Original ==
    call.op \in {"hue=", "saturation=", "brightness=", "colortemp="}
    => \A i \in 1..Len(call.log) :
          InDomain(call.log[i].data.parameter, call.log[i].data.value.n)

(***************************************************************************)
(* Properties of the light caches                                          *)
(***************************************************************************)

IsGetItem == call.op = "getitem"

\* the call made no fetch, or the bridge answered its fetch with the list
ListFetched ==
    call.log # <<>>
    => ~call.outcome.raises /\ call.outcome.json.json = "lights"

Range(f) == {f[k] : k \in DOMAIN f}

\* the caches hold the lights of the list, each under its id and its name
HoldsList(b, list) ==
    /\ DOMAIN b.lights_by_id = {int(list[i].id) : i \in 1..Len(list)}
    /\ DOMAIN b.lights_by_name = {list[i].name : i \in 1..Len(list)}
    /\ \A i \in 1..Len(list) :
          /\ b.lights_by_id[int(list[i].id)] = b.lights_by_name[list[i].name]
          /\ proxies[b.lights_by_id[int(list[i].id)]].light_id.id = list[i].id

\* C18: indexed access.  bridge[key] with empty caches makes one fetch of
\* the light list and fills both caches from it, and with filled caches
\* makes no request; it returns the Light cached under the integer key,
\* else the Light cached under the name key, else raises KeyError with the
\* text of the key.
C18_IndexedAccess ==
    (IsGetItem /\ ListFetched)
    => LET key == call.arg
       IN  /\ IF DOMAIN call.before.lights_by_id = {}
              THEN /\ call.log = <<Event("GET", LightsPath(bridge))>>
                   /\ HoldsList(bridge, call.outcome.json.lights)
              ELSE call.log = <<>> /\ bridge = call.before
           /\ IF key.type = "int" /\ key.n \in DOMAIN bridge.lights_by_id
              THEN /\ call.exc = NoExc
                   /\ call.result = RefsResult(bridge.lights_by_id[key.n])
                   /\ proxies[call.result.v].light_id.id = ToString(key.n)
              ELSE IF key.type = "str" /\ key.s \in DOMAIN bridge.lights_by_name
              THEN /\ call.exc = NoExc
                   /\ call.result = RefsResult(bridge.lights_by_name[key.s])
              ELSE call.exc = Exc("KeyError", KeyText(key))

C18_Witness ==
    /\ IsGetItem
    /\ call.log # <<>>
    /\ call.arg = String("Hall")
    /\ call.exc = NoExc
    /\ Len(proxies) = 2
    /\ call.result = RefsResult(2)

\* C19 as stated: in every state the two caches index the same Lights.
C19_Original == Range(bridge.lights_by_id) = Range(bridge.lights_by_name)

(***************************************************************************)
(* Groups and scenes: Group.__init__ and Bridge.run_scene.                 *)
(*                                                                         *)
(* The list of groups is a JSON object of id -> {name, lights}, and the    *)
(* list of scenes one of id -> {name, lights}; both are kept as sequences  *)
(* in the order of their members.  The resource of one group is the member *)
(* of the list: the bridge is in one state while a call runs.              *)
(***************************************************************************)

\* the names of groups; a group may be named like a number
GroupNames == {"Kitchen", "Hall", "2"}

\* the lights of a group or scene, as the bridge lists them
LightSets == {<<"1">>, <<"1", "2">>, <<"2", "1">>}

Listed(id, name, lights) == [id |-> id, name |-> name, lights |-> lights]

GroupList(groups) == [json |-> "groups", groups |-> groups]
SceneList(scenes) == [json |-> "scenes", scenes |-> scenes]

GroupsOf(id, names) == {Listed(id, n, l) : n \in names, l \in LightSets}

GroupLists ==
    {GroupList(<<>>)}
        \cup {GroupList(<<g>>) : g \in GroupsOf("1", GroupNames)}
        \cup {GroupList(<<g, h>>) : g \in GroupsOf("1", GroupNames),
                                    h \in GroupsOf("2", GroupNames)}

GroupListOutcomes ==
    {Returns(j) : j \in GroupLists \cup {ErrorList}}
        \cup {Raises(c) : c \in RequestErrors}

\* Group(bridge, 1), Group(bridge, 'Kitchen'), Group(bridge, '2')
GroupArgs ==
    {IdArg("1")} \cup {NameArg(n) : n \in GroupNames \cup {"kitchen"}}

\* whether int(text) returns: the text is that of an integer
IsInteger(text) == \E n \in 0..9 : ToString(n) = text

\* Light.__init__(self, bridge, None), del self.light_id, self.group_id = id
NewGroup(group_id) ==
    [group_id |-> group_id, _name |-> Null, _on |-> Null,
     _brightness |-> Null, _colortemp |-> Null, _hue |-> Null,
     _saturation |-> Null, transitiontime |-> Null,
     _reset_bri_after_on |-> Null]

ObjectResult(x) == [kind |-> "object", v |-> x]

\* a faulty loop that falls back to group 0, the group of all lights
scanned_or_all(r, groups, name) ==
    IF FirstNamed(groups, name) = "False"
    THEN [r EXCEPT !.result = ObjectResult(NewGroup(0))]
    ELSE [r EXCEPT !.result =
                       ObjectResult(NewGroup(int(FirstNamed(groups, name))))]

\* the for loop over groups.items() and its else clause
scanned(r, groups, name) ==
    IF FirstNamed(groups, name) = "False"
    THEN [r EXCEPT !.exc = Exc("LookupError", None), !.result = NoResult]
    ELSE [r EXCEPT !.result =
                       ObjectResult(NewGroup(int(FirstNamed(groups, name))))]

\* the except branch: bridge.get_group() and the scan of what it returns
group_by_name(r, name, o1) ==
    IF r.exc # NoExc THEN [r EXCEPT !.result = NoResult]
    ELSE IF o1.json.json # "groups"
    THEN [r EXCEPT !.exc = Exc("AttributeError", None), !.result = NoResult]
    ELSE scanned(r, o1.json.groups, name)

\* Group.__init__(bridge, group_id)
Group_init(b, group_id, o1) ==
    IF group_id.kind = "id" \/ IsInteger(group_id.id)
    THEN [Started EXCEPT !.result = ObjectResult(NewGroup(int(group_id.id)))]
    ELSE group_by_name(get_group_list(b, o1), group_id.id, o1)

GroupListOutcomesFor(group_id) ==
    IF group_id.kind = "id" \/ IsInteger(group_id.id) THEN {NoOutcome}
    ELSE GroupListOutcomes

NewGroupObject(group_id, o1) ==
    LET g == Group_init(bridge, group_id, o1)
    IN  /\ call = Idle
        /\ bridge.exists
        /\ call' = [op |-> "Group", arg |-> group_id, outcome |-> o1,
                    log |-> g.log, exc |-> g.exc, result |-> g.result]
        /\ UNCHANGED <<file, bridge, saved, proxies, maps, pc, now>>

\* the names of scenes, and the keys the bridge lists them under
SceneNames == {"Relax", "Read"}

ScenesOf(id) == {Listed(id, n, l) : n \in SceneNames, l \in LightSets}

SceneLists ==
    {SceneList(<<>>)}
        \cup {SceneList(<<s>>) : s \in ScenesOf("a")}
        \cup {SceneList(<<s, t>>) : s \in ScenesOf("a"), t \in ScenesOf("b")}
        \cup {SceneList(<<s, t, u>>) :
                s \in ScenesOf("a"), t \in ScenesOf("b"), u \in ScenesOf("c")}

\* the groups a caller of run_scene has: two names are enough
RoomLists ==
    {GroupList(<<>>)}
        \cup {GroupList(<<g>>) : g \in GroupsOf("1", {"Kitchen", "Hall"})}
        \cup {GroupList(<<g, h>>) : g \in GroupsOf("1", {"Kitchen", "Hall"}),
                                    h \in GroupsOf("2", {"Kitchen", "Hall"})}

\* the most requests one call of run_scene makes, for two groups
MaxRequests == 7

\* what the bridge holds while run_scene runs, and the request, if any,
\* that times out: fault is its number in the call, 0 for none
World(groups, scenes, fault) ==
    [groups |-> groups, scenes |-> scenes, fault |-> fault]

Worlds ==
    {World(g, s, k) : g \in RoomLists \cup {ErrorList},
                      s \in SceneLists \cup {ErrorList},
                      k \in 0..MaxRequests}

NoData == [parameter |-> None, value |-> Null, transitiontime |-> Null]
SceneData(scene_id) ==
    [parameter |-> "scene", value |-> String(scene_id), transitiontime |-> Null]

\* self.request(...) in the world w
asked(b, g, mode, address, data, w, json) ==
    send(b.ip, g, mode, address, data,
         IF Len(g.log) + 1 = w.fault THEN Raises("PhueRequestTimeout")
         ELSE Returns(json))

GroupPath(b, id) == Under(b, <<"groups", ToString(int(id))>>)

\* self.get_group().keys(): the list of groups is asked for
groups_listed(b, w) ==
    LET r == asked(b, Started, "GET", GroupsPath(b), NoData, w, w.groups)
    IN  IF r.exc # NoExc THEN r
        ELSE IF w.groups.json # "groups"
        THEN [r EXCEPT !.exc = Exc("AttributeError", None)]
        ELSE r

\* x.name for each Group x of self.groups, from the i-th on: one GET each
RECURSIVE names_read(_, _, _, _)
names_read(b, g, i, w) ==
    IF g.exc # NoExc \/ i > Len(w.groups.groups) THEN g
    ELSE names_read(b, asked(b, g, "GET", GroupPath(b, w.groups.groups[i].id),
                             NoData, w, w.groups.groups[i]),
                    i + 1, w)

\* self.get_scene().items(): the list of scenes is asked for
scenes_listed(b, g, w) ==
    IF g.exc # NoExc THEN g
    ELSE LET r == asked(b, g, "GET", Under(b, <<"scenes">>), NoData, w,
                        w.scenes)
         IN  IF r.exc # NoExc THEN r
             ELSE IF w.scenes.json # "scenes"
             THEN [r EXCEPT !.exc = Exc("AttributeError", None)]
             ELSE r

\* [x for x in list if x.name == name]
Named(list, name) ==
    LET Has(x) == x.name = name
    IN  SelectSeq(list, Has)

RECURSIVE Inserted(_, _)
Inserted(list, n) ==
    IF list = <<>> THEN <<n>>
    ELSE IF n < Head(list) THEN <<n>> \o list
    ELSE <<Head(list)>> \o Inserted(Tail(list), n)

\* sorted([int(x) for x in lights])
RECURSIVE sorted(_)
sorted(lights) ==
    IF lights = <<>> THEN <<>>
    ELSE Inserted(sorted(SubSeq(lights, 1, Len(lights) - 1)),
                  int(lights[Len(lights)]))

\* self.activate_scene(group.group_id, scene.scene_id); return
activated(b, g, group, scene, w) ==
    IF g.exc # NoExc THEN g
    ELSE asked(b, g, "PUT", GroupPath(b, group.id) \o <<"action">>,
               SceneData(scene.id), w, PutResult(<<Updated>>))

\* group.lights: the resource of the group is asked for
lights_read(b, g, group, w) ==
    asked(b, g, "GET", GroupPath(b, group.id), NoData, w, group)

\* a faulty report that lets the formatting error out
warned_raising(b, g, group, w, n) ==
    [lights_read(b, g, group, w) EXCEPT !.exc = Exc("TypeError", None)]

\* the report of the warning that ends run_scene: formatting its arguments
\* takes repr(group), which reads the name of the group from the bridge,
\* once for the message and once for the report of the formatting error;
\* logging keeps what these raise to itself
RECURSIVE warned(_, _, _, _, _)
warned(b, g, group, w, n) ==
    IF n = 0 THEN [g EXCEPT !.warnings = @ + 1]
    ELSE warned(b, [lights_read(b, g, group, w) EXCEPT !.exc = NoExc],
                group, w, n - 1)

\* a faulty loop that takes the first scene of the name, whatever its lights
first_scene_any(scenes, group_lights) == 1

\* the place in scenes of the first scene that has the lights of the group,
\* 0 when there is none
first_scene(scenes, group_lights) ==
    IF \E i \in 1..Len(scenes) : sorted(scenes[i].lights) = group_lights
    THEN CHOOSE i \in 1..Len(scenes) :
            /\ sorted(scenes[i].lights) = group_lights
            /\ \A j \in 1..(i - 1) : sorted(scenes[j].lights) # group_lights
    ELSE 0

\* the loop over the scenes of the name, g the call after group.lights
matched(b, g, group, scenes, w) ==
    IF g.exc # NoExc THEN g
    ELSE IF first_scene(scenes, sorted(group.lights)) = 0
    THEN warned(b, g, group, w, 2)
    ELSE activated(b, g, group,
                   scenes[first_scene(scenes, sorted(group.lights))], w)

\* a call of run_scene in progress
Running(g) ==
    [log |-> g.log, exc |-> g.exc, result |-> NoResult, warnings |-> 0]

\* run_scene after the two list comprehensions
chosen(b, g, groups, scenes, w) ==
    IF g.exc # NoExc THEN g
    ELSE IF Len(groups) # 1 THEN [g EXCEPT !.warnings = @ + 1]
    ELSE IF Len(scenes) = 0 THEN [g EXCEPT !.warnings = @ + 1]
    ELSE IF Len(scenes) = 1 THEN activated(b, g, groups[1], scenes[1], w)
    ELSE matched(b, lights_read(b, g, groups[1], w), groups[1], scenes, w)

fetched_all(b, w) ==
    Running(scenes_listed(b, names_read(b, groups_listed(b, w), 1, w), w))

\* run_scene(group_name, scene_name) in the world w
run_scene(b, group_name, scene_name, w) ==
    IF fetched_all(b, w).exc # NoExc THEN fetched_all(b, w)
    ELSE chosen(b, fetched_all(b, w), Named(w.groups.groups, group_name),
                Named(w.scenes.scenes, scene_name), w)

RunScene(group_name, scene_name, w) ==
    LET g == run_scene(bridge, group_name, scene_name, w)
    IN  /\ call = Idle
        /\ bridge.exists
        /\ call' = [op |-> "run_scene", group_name |-> group_name,
                    scene_name |-> scene_name, world |-> w, log |-> g.log,
                    exc |-> g.exc, result |-> g.result,
                    warnings |-> g.warnings]
        /\ UNCHANGED <<file, bridge, saved, proxies, maps, pc, now>>

\* a program that makes Groups and runs scenes by name
NextScenes ==
    \/ /\ call = Idle
       /\ \E group_id \in GroupArgs :
             \E o1 \in GroupListOutcomesFor(group_id) :
                 NewGroupObject(group_id, o1)
    \/ /\ call = Idle
       /\ \E group_name \in {"Kitchen"}, scene_name \in {"Relax"},
             w \in Worlds :
             RunScene(group_name, scene_name, w)
    \/ Proceed

SpecScenes == InitLights /\ [][NextScenes]_vars

(***************************************************************************)
(* Claims about groups and scenes                                          *)
(***************************************************************************)

IsGroupInit == call.op = "Group"

\* the argument is a name: a string that int() does not take
ByGroupName ==
    IsGroupInit /\ call.arg.kind = "name" /\ ~IsInteger(call.arg.id)

ListsGroups == ~call.outcome.raises /\ call.outcome.json.json = "groups"

HasNamed(list, name) == \E i \in 1..Len(list) : list[i].name = name

IsRunScene == call.op = "run_scene"

\* every request the call made was answered, with the lists it asked for
AllAnswered ==
    /\ call.world.fault = 0 \/ call.world.fault > Len(call.log)
    /\ call.world.groups.json = "groups"
    /\ call.world.scenes.json = "scenes"

TheGroups == Named(call.world.groups.groups, call.group_name)
TheScenes == Named(call.world.scenes.scenes, call.scene_name)

LightIdsOf(lights) == {int(lights[i]) : i \in 1..Len(lights)}

\* the two lists hold the same lights, in whatever order
SameLights(a, b) == Len(a) = Len(b) /\ LightIdsOf(a) = LightIdsOf(b)

Activations == {i \in 1..Len(call.log) : call.log[i].mode = "PUT"}

\* the call made one activation request: this scene on this group
Activates(group, scene) ==
    /\ Cardinality(Activations) = 1
    /\ \A i \in Activations :
          /\ call.log[i].address =
                 Under(bridge, <<"groups", group.id, "action">>)
          /\ call.log[i].data = SceneData(scene.id)

\* C22: run_scene with exactly one group of the name, every request being
\* answered: one scene of the name is activated on the group; of several
\* scenes of the name, the first whose lights are those of the group is
\* activated on it.
C22_SceneResolution ==
    (IsRunScene /\ AllAnswered /\ Len(TheGroups) = 1) =>
        /\ Len(TheScenes) = 1 => Activates(TheGroups[1], TheScenes[1])
        /\ \A i \in 1..Len(TheScenes) :
              (/\ Len(TheScenes) > 1
               /\ SameLights(TheScenes[i].lights, TheGroups[1].lights)
               /\ \A j \in 1..(i - 1) :
                     ~SameLights(TheScenes[j].lights, TheGroups[1].lights))
                  => Activates(TheGroups[1], TheScenes[i])

\* three scenes of the name: the first has other lights, the second and the
\* third have the lights of the group in another order; the second is run
C22_Witness ==
    /\ IsRunScene
    /\ AllAnswered
    /\ Len(TheGroups) = 1
    /\ Len(call.world.groups.groups) = 2
    /\ Len(TheScenes) = 3
    /\ TheGroups[1].lights = <<"2", "1">>
    /\ TheScenes[1].lights = <<"1">>
    /\ TheScenes[2].lights = <<"1", "2">>
    /\ TheScenes[3].lights = <<"1", "2">>
    /\ Activates(TheGroups[1], TheScenes[2])
    /\ call.exc = NoExc

\* no scene of the name has the lights of the group
NoneMatches ==
    \A i \in 1..Len(TheScenes) :
        ~SameLights(TheScenes[i].lights, TheGroups[1].lights)

\* C23: run_scene makes at most one activation request; when every request
\* is answered and the number of groups of the name is not one, or no scene
\* has the name, or several scenes have it and none has the lights of the
\* group, it makes no activation request and returns normally.
C23_RunSceneBestEffort ==
    IsRunScene =>
        /\ Cardinality(Activations) <= 1
        /\ (/\ AllAnswered
            /\ \/ Len(TheGroups) # 1
               \/ Len(TheScenes) = 0
               \/ Len(TheScenes) > 1 /\ NoneMatches)
              => (Activations = {} /\ call.exc = NoExc
                    /\ call.result = NoResult)

\* two scenes of the name, neither with the lights of the only group of the
\* name: the call ends with its warning
C23_Witness ==
    /\ IsRunScene
    /\ AllAnswered
    /\ Len(TheGroups) = 1
    /\ Len(TheScenes) = 2
    /\ NoneMatches
    /\ Activations = {}
    /\ call.warnings = 1
    /\ call.exc = NoExc

(***************************************************************************)
(* Bridge.request on the wire.                                             *)
(*                                                                         *)
(* The repository holds the method twice: in src/phue.py, where it serves  *)
(* Bridge and RemoteBridge, and in the package (src/phue/bridge.py).  What *)
(* the network does to one call is an input of the call: where it times    *)
(* out, whether the server keeps the connection open after its response,   *)
(* and what the token of a RemoteBridge does when asked for its header.    *)
(***************************************************************************)

\* an attribute that __init__ never assigned
NoAttribute == [set |-> FALSE, access_token |-> None]
RemoteToken(t) == [set |-> TRUE, access_token |-> t]

\* Bridge(ip, username) of src/phue.py: __init__ assigns no token
LocalBridge ==
    [exists |-> TRUE, cls |-> "Bridge", ip |-> "10.0.0.0",
     username |-> "fooo", api |-> "api", token |-> NoAttribute]

\* RemoteBridge(username): the token is assigned before Bridge.__init__ runs
RemoteBridge ==
    [exists |-> TRUE, cls |-> "RemoteBridge", ip |-> "api.meethue.com",
     username |-> "fooo", api |-> "bridge", token |-> RemoteToken("bar")]

\* Bridge(ip, username) of the package
PackageBridge ==
    [exists |-> TRUE, cls |-> "phue.bridge.Bridge", ip |-> "10.0.0.0",
     username |-> "fooo", api |-> "api", token |-> NoAttribute]

Bridges == {LocalBridge, RemoteBridge, PackageBridge}

\* where the network fails a call: nowhere, while the request is sent
\* (timeout or refusal), while the response is awaited, while its body is
\* read, or by a body that is no JSON
Faults == {"none", "send_timeout", "send_refused", "response_timeout",
           "read_timeout", "malformed"}

\* token.bearer(): the header value, at once or after it refreshed the
\* token over connections of its own, or PhueTokenExpired
Bearers == {"valid", "refreshed", "expired"}

Net(fault, keepalive, bearer) ==
    [fault |-> fault, keepalive |-> keepalive, bearer |-> bearer,
     json |-> Reply]

Nets == {Net(f, k, a) : f \in Faults, k \in BOOLEAN, a \in Bearers}

Modes4 == {"GET", "PUT", "POST", "DELETE"}

\* the timeouts of the two kinds of connection, in seconds
LocalTimeout == 10
RemoteTimeout == 20

\* what happens on the wire, in order
Wire(ev) ==
    [ev |-> ev, scheme |-> None, host |-> None, timeout |-> 0,
     mode |-> None, address |-> <<>>, body |-> Null, authorization |-> None]

Opened(scheme, host, timeout) ==
    [Wire("open") EXCEPT !.scheme = scheme, !.host = host,
                         !.timeout = timeout]

Sent(mode, address, body, authorization) ==
    [Wire("send") EXCEPT !.mode = mode, !.address = address, !.body = body,
                         !.authorization = authorization]

\* json.dumps(data): the JSON text of data
JsonText(data) == [type |-> "json", b |-> FALSE, n |-> 0, s |-> data]

\* a call of request in progress
Requesting ==
    [wire |-> <<>>, exc |-> NoExc, result |-> NoResult, authorization |-> None,
     timedout |-> FALSE]

did(q, ev) == IF q.exc # NoExc THEN q ELSE [q EXCEPT !.wire = Append(@, ev)]

failed(q, cls) == IF q.exc # NoExc THEN q ELSE [q EXCEPT !.exc = Exc(cls, None)]

\* socket.timeout raised by the connection, leaving request as cls
timed_out(q, cls) == [failed(q, cls) EXCEPT !.timedout = TRUE]

\* 'Authorization': self.token.bearer()
bearer(q, token, net) ==
    IF net.bearer = "expired" THEN failed(q, "PhueTokenExpired")
    ELSE [(IF net.bearer = "refreshed" THEN did(q, Wire("refresh")) ELSE q)
             EXCEPT !.authorization = "Bearer " \o token.access_token]

\* the if at the head of request: the connection object and the headers
connection(b, net) ==
    IF ~b.token.set THEN failed(Requesting, "AttributeError")
    ELSE bearer(did(Requesting, Opened("https", b.ip, RemoteTimeout)),
                b.token, net)

\* the try block: connection.request(...), with the body for PUT and POST;
\* except socket.timeout: raise PhueRequestTimeout
sent(q, mode, address, body, net) ==
    IF q.exc # NoExc \/ mode \notin Modes4 THEN q
    ELSE IF net.fault = "send_timeout" THEN timed_out(q, "PhueRequestTimeout")
    ELSE IF net.fault = "send_refused" THEN failed(q, "ConnectionRefusedError")
    ELSE did(q, Sent(mode, address,
                     IF mode \in {"PUT", "POST"} THEN body ELSE Null,
                     q.authorization))

\* result = connection.getresponse()
getresponse(q, mode, net) ==
    IF q.exc # NoExc THEN q
    ELSE IF mode \notin Modes4 THEN failed(q, "ResponseNotReady")
    ELSE IF net.fault = "response_timeout" THEN timed_out(q, "TimeoutError")
    ELSE did(q, Wire("getresponse"))

\* result.read(); closed tells that connection.close() came first: it
\* closes a response that the server left open, which then reads as empty
read(q, net, closed) ==
    IF q.exc # NoExc THEN q
    ELSE IF closed /\ net.keepalive
    THEN [did(q, Wire("read")) EXCEPT !.result = ValueResult("")]
    ELSE IF net.fault = "read_timeout" THEN timed_out(q, "TimeoutError")
    ELSE [did(q, Wire("read")) EXCEPT !.result =
              IF net.fault = "malformed" THEN ValueResult("malformed")
              ELSE JsonResult(net.json)]

\* connection.close()
close(q) == did(q, Wire("close"))

\* json.loads(response)
loads(q) ==
    IF q.exc # NoExc THEN [q EXCEPT !.result = NoResult]
    ELSE IF q.result.kind # "json"
    THEN [q EXCEPT !.exc = Exc("JSONDecodeError", None), !.result = NoResult]
    ELSE q

\* Bridge.request(mode, address, data) of src/phue.py
request_sent(b, mode, address, data, net) ==
    loads(close(read(getresponse(sent(connection(b, net), mode, address,
                                      JsonText(data), net),
                                 mode, net),
                     net, FALSE)))

\* Bridge.request(mode, address, data) of the package: no headers, the body
\* as the caller gives it, and the connection closed before the read
package_request(b, mode, address, data, net) ==
    loads(read(close(getresponse(sent(did(Requesting,
                                          Opened("http", b.ip, LocalTimeout)),
                                      mode, address, data, net),
                                 mode, net)),
               net, TRUE))

Request(mode, address, data, net) ==
    LET q == IF bridge.cls = "phue.bridge.Bridge"
             THEN package_request(bridge, mode, address, JsonText(data), net)
             ELSE request_sent(bridge, mode, address, data, net)
    IN  /\ call = Idle
        /\ bridge.exists
        /\ call' = [op |-> "request", mode |-> mode, address |-> address,
                    data |-> data, net |-> net, wire |-> q.wire,
                    timedout |-> q.timedout, exc |-> q.exc,
                    result |-> q.result]
        /\ UNCHANGED <<file, bridge, saved, proxies, maps, pc, now>>

\* the requests a caller makes: a read of the lights and a write to one
Addresses(b) == {LightsPath(b), StatePath(b, "1")}

InitWire ==
    /\ file = FileOf("missing")
    /\ saved = NoSave
    /\ proxies = <<>>
    /\ maps = <<>>
    /\ pc = None
    /\ now = 0
    /\ call = Idle
    /\ bridge \in Bridges

NextWire ==
    \/ /\ call = Idle
       /\ \E mode \in Modes4 \cup {"PATCH"}, address \in Addresses(bridge),
             data \in {"on"}, net \in Nets :
             Request(mode, address, data, net)
    \/ Proceed

SpecWire == InitWire /\ [][NextWire]_vars

(***************************************************************************)
(* Claims about the transport.                                             *)
(***************************************************************************)

IsRequest == call.op = "request"

\* the events of the call's own connection: what the token does over
\* connections of its own to refresh itself is left out
OwnWire == SelectSeq(call.wire, LAMBDA e : e.ev # "refresh")

Events == [i \in 1..Len(OwnWire) |-> OwnWire[i].ev]

Sends == SelectSeq(OwnWire, LAMBDA e : e.ev = "send")

\* the body request is to send: none for GET and DELETE, the JSON text of
\* the data for PUT and POST
BodyOf(mode, data) == IF mode \in {"PUT", "POST"} THEN JsonText(data) ELSE Null

\* C24: a request over a network that does not fail opens one connection,
\* sends one operation over it (without a body for GET and DELETE, with the
\* JSON text of the data for PUT and POST), reads the response before it
\* closes the connection, and returns the parsed JSON of the response.
C24_Original ==
    (IsRequest /\ call.mode \in Modes4 /\ call.net.fault = "none"
        /\ call.net.bearer # "expired")
        => /\ Events = <<"open", "send", "getresponse", "read", "close">>
           /\ Sends[1].mode = call.mode
           /\ Sends[1].address = call.address
           /\ Sends[1].body = BodyOf(call.mode, call.data)
           /\ call.exc = NoExc
           /\ call.result = JsonResult(call.net.json)

\* C25: a timeout of the transport, while the request is sent or while the
\* response is awaited or read, leaves request as PhueRequestTimeout, without
\* a result and without a second attempt.
C25_Original ==
    (IsRequest /\ call.timedout)
        => /\ call.exc.cls = "PhueRequestTimeout"
           /\ call.result = NoResult
           /\ Len(Sends) <= 1

\* C26: a request of a local Bridge goes over plain HTTP without an
\* authorization header, with the credential in the path only, and the call
\* completes; a request of a RemoteBridge carries the bearer header.
C26_Original ==
    (IsRequest /\ call.mode \in Modes4 /\ call.net.fault = "none")
        => /\ bridge.cls = "Bridge"
              => /\ call.exc = NoExc
                 /\ OwnWire[1].scheme = "http"
                 /\ Sends[1].authorization = None
                 /\ Sends[1].address[2] = bridge.username
           /\ (bridge.cls = "RemoteBridge" /\ call.net.bearer # "expired")
              => /\ OwnWire[1].scheme = "https"
                 /\ Sends[1].authorization
                        = "Bearer " \o bridge.token.access_token

(***************************************************************************)
(* Sensor: the proxy of one sensor.  Its properties read through           *)
(* get_sensor and keep what they read in a field.                          *)
(***************************************************************************)

SensorPath(b, id) == <<"api", b.username, "sensors", id>>

\* Sensor.__init__
NewSensor(sensor_id) ==
    [sensor_id |-> sensor_id, _name |-> Null, _manufacturername |-> Null,
     _recycle |-> Null]

\* a sensor resource as the bridge reports it
SensorData(name, manufacturername, recycle) ==
    [json |-> "sensor",
     attrs |-> [name |-> String(name),
                manufacturername |-> String(manufacturername),
                recycle |-> Boolean(recycle)]]

SensorNames == {"Switch", "Motion"}
Manufacturers == {"Philips", "IKEA"}

SensorOutcomes ==
    {Returns(SensorData(n, m, r)) :
        n \in SensorNames, m \in Manufacturers, r \in BOOLEAN}
        \cup {Returns(ErrorList)}
        \cup {Raises(c) : c \in RequestErrors}

\* a property access on the Sensor s in progress
Sensing(s) == [sensor |-> s, log |-> <<>>, exc |-> NoExc, result |-> Null]

\* Bridge.get_sensor(sensor_id, parameter), sensor_id the text of an id: the
\* value of the parameter in the resource, None when the bridge answers with
\* a list
get_sensor(b, x, sensor_id, parameter, o) ==
    LET r == send(b.ip, x, "GET", SensorPath(b, sensor_id), Null, o)
    IN  IF r.exc # NoExc THEN r
        ELSE IF o.json.json # "sensor" THEN [r EXCEPT !.result = Null]
        ELSE [r EXCEPT !.result = o.json.attrs[parameter]]

\* Sensor._get(parameter)
sensor_get(b, x, parameter, o) ==
    get_sensor(b, x, ToString(x.sensor.sensor_id.n), parameter, o)

\* Sensor.name, read
sensor_name(b, x, o) ==
    LET r == sensor_get(b, x, "name", o)
    IN  IF r.exc # NoExc THEN r
        ELSE [r EXCEPT !.sensor._name = r.result]

\* Sensor.manufacturername
manufacturername(b, x, o) ==
    LET r == sensor_get(b, x, "manufacturername", o)
    IN  IF r.exc # NoExc THEN r
        ELSE [r EXCEPT !.sensor._manufacturername = r.result]

\* Sensor.recycle: reads 'manufacturername' into _recycle and returns
\* _manufacturername
recycle(b, x, o) ==
    LET r == sensor_get(b, x, "manufacturername", o)
    IN  IF r.exc # NoExc THEN r
        ELSE [r EXCEPT !.sensor._recycle = r.result,
                       !.result = x.sensor._manufacturername]

\* the statement sensor.<attr> on the Sensor p, x what came of it
Sensed(p, attr, o, x) ==
    /\ call = Idle
    /\ bridge.exists
    /\ proxies' = [proxies EXCEPT ![p] = x.sensor]
    /\ call' = [op |-> "Sensor.get", ref |-> p, attr |-> attr,
                response |-> o, before |-> proxies[p], log |-> x.log,
                exc |-> x.exc, result |-> x.result]
    /\ UNCHANGED <<file, bridge, saved, maps, pc, now>>

GetSensorName(p, o) ==
    Sensed(p, "name", o, sensor_name(bridge, Sensing(proxies[p]), o))

GetManufacturername(p, o) ==
    Sensed(p, "manufacturername", o,
           manufacturername(bridge, Sensing(proxies[p]), o))

GetRecycle(p, o) ==
    Sensed(p, "recycle", o, recycle(bridge, Sensing(proxies[p]), o))

\* a program that holds one Sensor, made with the id of the sensor
InitSensor ==
    /\ file = FileOf("missing")
    /\ saved = NoSave
    /\ call = Idle
    /\ bridge = [exists |-> TRUE, ip |-> "10.0.0.0", username |-> "fooo"]
    /\ proxies = <<NewSensor(Number(7))>>
    /\ maps = <<>>
    /\ pc = None
    /\ now = 0

NextSensor ==
    \/ /\ call = Idle
       /\ \E o \in SensorOutcomes : GetSensorName(1, o)
    \/ /\ call = Idle
       /\ \E o \in SensorOutcomes : GetManufacturername(1, o)
    \/ /\ call = Idle
       /\ \E o \in SensorOutcomes : GetRecycle(1, o)
    \/ Proceed

SpecSensor == InitSensor /\ [][NextSensor]_vars

\* a read of a property of the Sensor that the bridge answered with the
\* resource
SensorRead ==
    /\ call.op = "Sensor.get"
    /\ ~call.response.raises
    /\ call.response.json.json = "sensor"

\* C27: a read of a property of a proxy sends one GET for the resource and
\* returns the value the response has for that property, whatever the proxy
\* held before.
C27_Original ==
    SensorRead
        => /\ Len(call.log) = 1
           /\ call.log[1].mode = "GET"
           /\ call.exc = NoExc
           /\ call.result = call.response.json.attrs[call.attr]

(***************************************************************************)
(* The command line: the loop that constructs a Bridge for the host it is  *)
(* given and, on PhueRegistrationException, asks the operator to press the *)
(* button of the bridge and Enter.  pc is the statement the loop is at;    *)
(* call holds the last statement it executed and, in 'after', the one      *)
(* before it.                                                              *)
(***************************************************************************)

Host == "10.0.0.0"

\* a faulty loop that tries again without asking
after_attempt_unasked(exc) ==
    IF exc = NoExc THEN "done"
    ELSE IF exc.cls = "PhueRegistrationException" THEN "construct"
    ELSE "crashed"

\* where the loop goes after Bridge(...): break when it returned, the except
\* clause for PhueRegistrationException, out of the program for any other
\* exception
after_attempt(exc) ==
    IF exc = NoExc THEN "done"
    ELSE IF exc.cls = "PhueRegistrationException" THEN "prompt"
    ELSE "crashed"

\* b = Bridge(args.host, config_file_path=...)
MainConstruct(outcome) ==
    LET s == connect(Fields(Host, None), outcome, 0)
    IN  /\ pc = "construct"
        /\ file' = s.file
        /\ saved' = s.saved
        /\ bridge' = IF s.exc = NoExc
                     THEN [exists |-> TRUE, ip |-> s.ip, username |-> s.username]
                     ELSE NoBridge
        /\ pc' = after_attempt(s.exc)
        /\ call' = [op |-> "main.Bridge", after |-> call.op,
                    outcome |-> outcome, log |-> s.log, exc |-> s.exc]
        /\ UNCHANGED <<proxies, maps, now>>

\* input('Press button on Bridge then hit Enter to try again')
MainPrompt ==
    /\ pc = "prompt"
    /\ pc' = "construct"
    /\ call' = [op |-> "input", after |-> call.op]
    /\ UNCHANGED <<file, bridge, saved, proxies, maps, now>>

InitMain ==
    /\ file \in Files
    /\ bridge = NoBridge
    /\ saved = NoSave
    /\ proxies = <<>>
    /\ maps = <<>>
    /\ pc = "construct"
    /\ now = 0
    /\ call = Idle

NextMain ==
    \/ \E outcome \in IF Issues(Host, None) THEN RegistrationOutcomes
                      ELSE {NoOutcome} :
          MainConstruct(outcome)
    \/ MainPrompt

SpecMain == InitMain /\ [][NextMain]_vars

\* the program goes on to its next statement, and the operator presses Enter
SpecMainFair == SpecMain /\ WF_vars(NextMain)

(***************************************************************************)
(* Claims about the command line.                                          *)
(***************************************************************************)

IsAttempt == call.op = "main.Bridge"
Registers == IsAttempt /\ Count(call.log, "POST") > 0
GotAnswer == Registers /\ ~call.outcome.raises
Terminated == pc \in {"done", "crashed"}

\* the loop is where its last statement sent it: a construction that raised
\* PhueRegistrationException is followed by the prompt and by nothing else,
\* the prompt by the next construction, and a construction that returned
\* by the end of the loop
LoopOrder ==
    /\ IsAttempt /\ call.exc.cls = "PhueRegistrationException" => pc = "prompt"
    /\ IsAttempt /\ call.exc = NoExc => pc = "done" /\ bridge.exists
    /\ IsAttempt => call.after \in {"none", "input"}
    /\ IsAttempt => Count(call.log, "POST") <= 1
    /\ call.op = "input" => pc = "construct" /\ call.after = "main.Bridge"
    /\ pc = "prompt" => IsAttempt
    /\ pc = "done" => IsAttempt /\ call.exc = NoExc

\* one prompt, then one construction: from the prompt the loop goes to a
\* construction and nowhere else, and nothing follows the end of the loop
LoopSteps ==
    [][/\ pc = "prompt" => pc' = "construct" /\ call'.op = "input"
       /\ pc' = "construct" => pc = "prompt"
       /\ ~Terminated]_vars

\* the response's first entry that is a success or an error of type 101 or
\* 7 is a success
AnsweredSuccess ==
    /\ GotAnswer
    /\ \E t \in Tokens : FirstDecisive(call.outcome.json, Success(t))

\* the response has a success entry
HasSuccess ==
    /\ GotAnswer
    /\ \E t \in Tokens : Contains(call.outcome.json, Success(t))

MaxMaps == 1

\* the caller writes {parameter: value}
NewMap(setting) ==
    /\ call = Idle
    /\ Len(maps) < MaxMaps
    /\ maps' = Append(maps, Data(setting.parameter, setting.value, Null))
    /\ UNCHANGED <<file, bridge, saved, proxies, pc, call, now>>

\* data = parameter, and data['transitiontime'] = ... when one is given:
\* data is the caller's map itself
map_data(m, transitiontime) ==
    IF transitiontime # Null THEN [m EXCEPT !.transitiontime = transitiontime]
    ELSE m

\* set_light(light_id, parameter) with a map for parameter
set_light_map(b, light_id, m, transitiontime, outs) ==
    set_each(b, Setting, light_id, 1, None, map_data(m, transitiontime), outs)

\* set_light(light_id, maps[k], transitiontime=transitiontime)
SetLightMap(k, light_id, transitiontime, outs) ==
    LET g == set_light_map(bridge, light_id, maps[k], transitiontime, outs)
    IN  /\ call = Idle
        /\ bridge.exists
        /\ maps' = [maps EXCEPT ![k] = map_data(@, transitiontime)]
        /\ call' = [op |-> "set_light", light_id |-> light_id,
                    parameter |-> "map", value |-> Null,
                    transitiontime |-> transitiontime,
                    log |-> g.log, exc |-> g.exc, result |-> g.result,
                    warnings |-> g.warnings]
        /\ UNCHANGED <<file, bridge, saved, proxies, pc, now>>

MapTargets == {IdArg("1"), ListArg(<<IdArg("1"), IdArg("2")>>)}
MapSettings == {s \in Settings : s.parameter # "name"}

\* a program that sets lights by attribute name and by attribute map
NextMaps ==
    \/ \E setting \in MapSettings : NewMap(setting)
    \/ /\ call = Idle
       /\ \E k \in 1..Len(maps), light_id \in MapTargets,
             transitiontime \in TransitionTimes :
             \E outs \in OutcomesFor(light_id, None) :
                 SetLightMap(k, light_id, transitiontime, outs)
    \/ /\ call = Idle
       /\ \E light_id \in MapTargets, setting \in MapSettings,
             transitiontime \in TransitionTimes :
             \E outs \in OutcomesFor(light_id, setting.parameter) :
                 SetLight(light_id, setting, transitiontime, outs)
    \/ Proceed

SpecMaps == InitLights /\ [][NextMaps]_vars

\* the bodies of the PUT requests of the call
PutBodies ==
    {call.log[i].data : i \in {j \in 1..Len(call.log) :
                                   call.log[j].mode = "PUT"}}

\* C29: the bodies of a set_light call with a transitiontime carry it, and
\* the bodies of a set_light call without one carry none, whatever was sent
\* before and whether the attributes are given by name or as a map.
C29_Original ==
    call.op = "set_light"
        => \A body \in PutBodies : body.transitiontime = call.transitiontime

(***************************************************************************)
(* The sensor caches: get_sensor_objects fills them from the sensor list,  *)
(* create_sensor adds the sensor it created.  A key of sensors_by_id is a  *)
(* value with its type: the int 7 and the string '7' are two keys.         *)
(***************************************************************************)

\* the most Sensors the program comes to hold
MaxSensors == 2

SensorList(sensors) == [json |-> "sensors", sensors |-> sensors]

SensorLists ==
    {SensorList(<<>>), SensorList(<<Light("7", "Switch")>>),
     SensorList(<<Light("7", "Switch"), Light("8", "Motion")>>)}

SensorListOutcomes ==
    {Returns(j) : j \in SensorLists} \cup {Raises("PhueRequestTimeout")}

\* the entries of the response to the creation of a sensor
Created(id) == [kind |-> "success", id |-> id]
Failed == [kind |-> "error", id |-> None]

Creations ==
    {<<>>, <<Created("8")>>, <<Created("9")>>, <<Failed>>,
     <<Failed, Created("8")>>, <<Created("8"), Failed>>}

CreateOutcomes ==
    {Returns(PutResult(c)) : c \in Creations}
        \cup {Raises("PhueRequestTimeout")}

\* the tuple create_sensor returns; a message is the entry result[0], known
\* by its kind
Pair(id, message) == [kind |-> "pair", v |-> [id |-> id, message |-> message]]

\* the loop of get_sensor_objects over the sensor list, from its i-th sensor
RECURSIVE fill_sensors(_, _, _)
fill_sensors(h, list, i) ==
    IF i > Len(list) THEN h
    ELSE LET ref == Len(h.heap) + 1
             b == h.bridge
         IN  fill_sensors(
                 Held([b EXCEPT
                          !.sensors_by_id =
                              Put(b.sensors_by_id, Number(int(list[i].id)), ref),
                          !.sensors_by_name =
                              Put(b.sensors_by_name, list[i].name, ref)],
                      Append(h.heap, NewSensor(Number(int(list[i].id)))),
                      h.g),
                 list, i + 1)

\* get_sensor_objects(mode)
get_sensor_objects(h, mode, o1) ==
    LET b == h.bridge
        r == request(b.ip, h.g, "GET", SensorsPath(b), o1)
        f == IF DOMAIN b.sensors_by_id # {} THEN h
             ELSE IF r.exc # NoExc THEN Held(b, h.heap, r)
             ELSE fill_sensors(Held(b, h.heap, r), o1.json.sensors, 1)
    IN  returned(f, RefsResult(IF mode = "id" THEN f.bridge.sensors_by_id
                               ELSE f.bridge.sensors_by_name))

\* the part of create_sensor after its request, with result[0] a success
sensor_kept(h, r, name, new_id) ==
    LET ref == Len(h.heap) + 1
        b == h.bridge
    IN  Held([b EXCEPT
                 !.sensors_by_id = Put(b.sensors_by_id, String(new_id), ref),
                 !.sensors_by_name = Put(b.sensors_by_name, name, ref)],
             Append(h.heap, NewSensor(Number(int(new_id)))),
             [r EXCEPT !.result = Pair(String(new_id), Null)])

\* create_sensor(name, ...)
create_sensor(h, name, o) ==
    LET b == h.bridge
        r == send(b.ip, h.g, "POST", SensorsPath(b), String(name), o)
    IN  IF r.exc # NoExc THEN Held(b, h.heap, r)
        ELSE IF o.json.entries = <<>>
        THEN Held(b, h.heap, [r EXCEPT !.exc = Exc("IndexError", None)])
        ELSE IF o.json.entries[1].kind = "success"
        THEN sensor_kept(h, r, name, o.json.entries[1].id)
        ELSE Held(b, h.heap,
                  [r EXCEPT !.result =
                       Pair(Null, String(o.json.entries[1].kind))])

GetSensorObjects(mode, o1) ==
    Filling("get_sensor_objects", String(mode),
            get_sensor_objects(Held(bridge, proxies, Started), mode, o1), o1)

CreateSensor(name, o) ==
    /\ Len(proxies) < MaxSensors
    /\ Filling("create_sensor", String(name),
               create_sensor(Held(bridge, proxies, Started), name, o), o)

InitSensors ==
    /\ file = FileOf("missing")
    /\ saved = NoSave
    /\ call = Idle
    /\ bridge = [exists |-> TRUE, ip |-> "10.0.0.0", username |-> "fooo",
                 sensors_by_id |-> <<>>, sensors_by_name |-> <<>>]
    /\ proxies = <<>>
    /\ maps = <<>>
    /\ pc = None
    /\ now = 0

NextSensors ==
    \/ /\ call = Idle
       /\ \E mode \in {"id", "name"}, o1 \in SensorListOutcomes :
             GetSensorObjects(mode, o1)
    \/ /\ call = Idle
       /\ \E name \in {"Motion", "Door"}, o \in CreateOutcomes :
             CreateSensor(name, o)
    \/ Proceed

SpecSensors == InitSensors /\ [][NextSensors]_vars

\* a call of create_sensor that the bridge answered
CreateAnswered == call.op = "create_sensor" /\ ~call.outcome.raises

HasCreated ==
    \E i \in 1..Len(call.outcome.json.entries) :
        call.outcome.json.entries[i].kind = "success"

\* the Sensor the call made is in both caches, under its id and its name
SensorCached ==
    LET ref == Len(proxies)
    IN  /\ ref > 0
        /\ proxies[ref].sensor_id \in DOMAIN bridge.sensors_by_id
        /\ bridge.sensors_by_id[proxies[ref].sensor_id] = ref
        /\ call.arg.s \in DOMAIN bridge.sensors_by_name
        /\ bridge.sensors_by_name[call.arg.s] = ref

\* C30: create_sensor returns (id, None) exactly when the response has a
\* success entry, and then the new Sensor is in both caches under its id and
\* its name; otherwise it returns (None, message) and the caches are as
\* before.
C30_Original ==
    CreateAnswered
        => /\ call.exc = NoExc
           /\ call.result.kind = "pair"
           /\ HasCreated <=> call.result.v.message = Null
           /\ HasCreated <=> call.result.v.id # Null
           /\ HasCreated => SensorCached
           /\ ~HasCreated => bridge = call.before

(***************************************************************************)
(* Claims about the addresses of set_light and get_light.                  *)
(***************************************************************************)

\* C31: with targets given as a single id or a list of ids, the i-th PUT of
\* set_light addresses the i-th target: /lights/<id> when the attribute is
\* 'name', /lights/<id>/state for any other attribute.
C31_Original ==
    IdTargets
        => \A i \in 1..Len(call.log) :
              /\ call.log[i].mode = "PUT"
              /\ call.log[i].address =
                     IF call.parameter = "name"
                     THEN LightPath(bridge, Array(call.light_id)[i].id)
                     ELSE StatePath(bridge, Array(call.light_id)[i].id)

\* the text of the sentinel that get_light_id_by_name returns for a name that
\* no light has
Sentinel == "False"

\* the address holds the sentinel where the id of a light belongs
FromSentinel(address) == \E i \in 1..Len(address) : address[i] = Sentinel

\* C36: no request of get_light or set_light is addressed to the sentinel
\* of a name that matches no light.
C36_Original ==
    call.op \in {"set_light", "get_light"}
        => \A i \in 1..Len(call.log) : ~FromSentinel(call.log[i].address)

(***************************************************************************)
(* Bridge.set_group.                                                       *)
(***************************************************************************)

GroupRoot(b, id) == <<"api", b.username, "groups", id>>
ActionPath(b, id) == <<"api", b.username, "groups", id, "action">>

\* a call of set_group in progress; none tells that it returned None
GroupSetting ==
    [log |-> <<>>, exc |-> NoExc, result |-> <<>>, warnings |-> 0,
     errors |-> 0, none |-> FALSE]

\* result.append(self.request('PUT', ...))
group_put(b, g, id, parameter, data, o) ==
    LET r == send(b.ip, g, "PUT",
                  IF parameter \in {"name", "lights"} THEN GroupRoot(b, id)
                  ELSE ActionPath(b, id),
                  data, o)
    IN  IF r.exc # NoExc THEN r ELSE [r EXCEPT !.result = Append(@, o.json)]

\* the look at result[-1][0] after the loop
group_checked(g) ==
    IF g.result = <<>> \/ g.result[Len(g.result)].entries = <<>>
    THEN [g EXCEPT !.exc = Exc("IndexError", None)]
    ELSE IF g.result[Len(g.result)].entries[1].kind = "error"
    THEN [g EXCEPT !.warnings = @ + 1]
    ELSE g

\* the loop of set_group over the groups, from the i-th, and what follows it
RECURSIVE set_group_each(_, _, _, _, _, _, _)
set_group_each(b, g, group_id, i, parameter, data, outs) ==
    IF i > Len(Array(group_id)) THEN group_checked(g)
    ELSE LET group == Array(group_id)[i]
             n == IF group.kind = "name"
                  THEN get_group_id_by_name(b, g, group.id, outs[i].list)
                  ELSE [g |-> g, id |-> group.id]
         IN  IF n.g.exc # NoExc THEN n.g
             ELSE IF n.id = "False"
             THEN [n.g EXCEPT !.errors = @ + 1, !.none = TRUE,
                              !.result = <<>>]
             ELSE LET r == group_put(b, n.g, n.id, parameter, data,
                                     outs[i].put)
                  IN  IF r.exc # NoExc THEN r
                      ELSE set_group_each(b, r, group_id, i + 1, parameter,
                                          data, outs)

\* set_group(group_id, parameter, value, transitiontime)
set_group(b, group_id, parameter, value, transitiontime, outs) ==
    IF b.username = None
    THEN [GroupSetting EXCEPT !.exc = Exc("TypeError", None)]
    ELSE set_group_each(b, GroupSetting, group_id, 1, parameter,
                        Data(parameter, value, transitiontime), outs)

SetGroup(group_id, setting, transitiontime, outs) ==
    LET g == set_group(bridge, group_id, setting.parameter, setting.value,
                       transitiontime, outs)
    IN  /\ call = Idle
        /\ bridge.exists
        /\ call' = [op |-> "set_group", group_id |-> group_id,
                    parameter |-> setting.parameter, value |-> setting.value,
                    transitiontime |-> transitiontime, outs |-> outs,
                    log |-> g.log, exc |-> g.exc, result |-> g.result,
                    none |-> g.none, warnings |-> g.warnings]
        /\ UNCHANGED <<file, bridge, saved, proxies, maps, pc, now>>

\* the groups a caller sets: by id, by name, and lists of both
GroupTargets ==
    {IdArg("1"), NameArg("Kitchen"), ListArg(<<>>),
     ListArg(<<IdArg("1"), IdArg("2")>>),
     ListArg(<<IdArg("1"), NameArg("Hall")>>),
     ListArg(<<NameArg("Hall"), IdArg("2")>>)}

GroupSettings ==
    {[parameter |-> "on", value |-> Boolean(TRUE)],
     [parameter |-> "name", value |-> String("Hall")]}

\* the outcomes of the requests made for one element of the group list
GroupOutcomesOf(group) ==
    {[list |-> o1, put |-> o2] :
        o1 \in IF group.kind = "name" THEN ListOutcomes ELSE {NoOutcome},
        o2 \in PutOutcomes}

RECURSIVE GroupOutcomeSeqs(_)
GroupOutcomeSeqs(items) ==
    IF items = <<>> THEN {<<>>}
    ELSE {<<o>> \o rest : o \in GroupOutcomesOf(Head(items)),
                          rest \in GroupOutcomeSeqs(Tail(items))}

NextGroups ==
    \/ /\ call = Idle
       /\ \E group_id \in GroupTargets, setting \in GroupSettings,
             transitiontime \in TransitionTimes :
             \E outs \in GroupOutcomeSeqs(Array(group_id)) :
                 SetGroup(group_id, setting, transitiontime, outs)
    \/ Proceed

SpecGroups == InitLights /\ [][NextGroups]_vars

\* a set_group over at least one group, every request of which the bridge
\* answers: a name lookup with the list of groups, a PUT with a list of
\* results
GroupsAnswered ==
    /\ call.op = "set_group"
    /\ call.outs # <<>>
    /\ \A i \in 1..Len(call.outs) :
          /\ ~call.outs[i].put.raises
          /\ call.outs[i].put.json.entries # <<>>
          /\ Array(call.group_id)[i].kind = "name"
                => /\ ~call.outs[i].list.raises
                   /\ call.outs[i].list.json.json = "lights"

\* C32: set_group returns one result per target; neither an error entry in
\* a response nor a group name that does not resolve ends the call early or
\* loses a result.
C32_Original ==
    GroupsAnswered
        => /\ call.exc = NoExc
           /\ ~call.none
           /\ Len(call.result) = Len(call.outs)

(***************************************************************************)
(* The history of a program that switches one Light.  pc is what the       *)
(* program has last done about switching it off: "timed" after an on=False *)
(* written while the Light had a transition time, "plain" after one        *)
(* written while it had none, "none" before the first on=False and after   *)
(* the brightness has been restored.                                       *)
(***************************************************************************)

\* the call wrote the brightness
Restores(x) ==
    \E i \in 1..Len(x.log) :
        x.log[i].mode = "PUT" /\ x.log[i].data.parameter = "bri"

\* the history after light.on = value, x what came of the statement
switched(history, before, value, x) ==
    IF value = Boolean(FALSE)
    THEN IF x.log = <<>> THEN history
         ELSE IF before.transitiontime # Null THEN "timed" ELSE "plain"
    ELSE IF Restores(x) /\ x.exc = NoExc THEN "none" ELSE history

\* light.on = value
Switch(p, value, o1, o2) ==
    LET x == set_on(bridge, Acting(proxies[p]), value, o1, o2)
    IN  /\ call = Idle
        /\ bridge.exists
        /\ proxies' = [proxies EXCEPT ![p] = x.light]
        /\ pc' = switched(pc, proxies[p], value, x)
        /\ call' = [op |-> "on=", ref |-> p, value |-> value,
                    before |-> proxies[p], history |-> pc, log |-> x.log,
                    exc |-> x.exc, result |-> x.result,
                    warnings |-> x.warnings]
        /\ UNCHANGED <<file, bridge, saved, maps, now>>

InitSwitch ==
    /\ file = FileOf("missing")
    /\ saved = NoSave
    /\ call = Idle
    /\ bridge = [exists |-> TRUE, ip |-> "10.0.0.0", username |-> "fooo"]
    /\ proxies = <<NewLight(IdArg("1"))>>
    /\ maps = <<>>
    /\ pc = "none"
    /\ now = 0

NextSwitch ==
    \/ /\ call = Idle
       /\ \E value \in OnValues, o1, o2 \in PutOutcomes :
             Switch(1, value, o1, o2)
    \/ /\ call = Idle
       /\ \E o2 \in ReadOutcomes, v \in OnValues : GetOn(1, o2, v)
    \/ \E value \in TransitionTimes : SetTransitiontime(1, value)
    \/ Proceed

SpecSwitch == InitSwitch /\ [][NextSwitch]_vars

\* C33: an on=True written through the proxy writes the brightness as well
\* only when the last on=False written through it was written with a
\* transition time and the brightness has not been restored since; in every
\* other case it makes one write.
C33_Original ==
    (call.op = "on=" /\ "history" \in DOMAIN call
        /\ call.value = Boolean(TRUE) /\ call.history # "timed")
        => /\ ~Restores(call)
           /\ Len(call.log) = 1

(***************************************************************************)
(* Claims about the life of the light caches.                              *)
(***************************************************************************)

\* the id cache of the Bridge b holds a Light
Populated(b) == DOMAIN b.lights_by_id # {}

IsCacheRead == call.op \in {"get_light_objects", "getitem"}

\* a read of the caches that finds them populated makes no request and
\* leaves them as they are
NoSecondFetch ==
    (IsCacheRead /\ Populated(call.before))
        => /\ call.log = <<>>
           /\ bridge = call.before

\* no statement of the program changes a populated id cache
IdCacheKept ==
    [][Populated(bridge) => bridge'.lights_by_id = bridge.lights_by_id]_vars

\* C34: once a list fetch has put a light into the caches,
\* get_light_objects and bridge[key] make no further list request, and
\* nothing empties or refills the id cache, on whose emptiness the fetch
\* depends.
C34_PopulatedOnce == []NoSecondFetch /\ IdCacheKept

C34_Witness ==
    /\ IsCacheRead
    /\ Populated(call.before)
    /\ call.log = <<>>
    /\ call.exc = NoExc
    /\ Len(proxies) = 2

\* C35: after a name setter call that returned, the Light is in the name
\* cache under the name the bridge now reports for it, and the id cache is
\* as before.
C35_Original ==
    (call.op = "name=" /\ call.exc = NoExc)
        => /\ call.new_name.s \in DOMAIN bridge.lights_by_name
           /\ bridge.lights_by_name[call.new_name.s] = call.ref
           /\ bridge.lights_by_id = call.before.lights_by_id

(***************************************************************************)
(* Bridge.delete_sensor.                                                   *)
(***************************************************************************)

\* the except clause of delete_sensor: whatever was raised is logged and
\* the call returns None
swallowed(h) ==
    Held(h.bridge, h.heap, [h.g EXCEPT !.exc = NoExc, !.result = NoResult])

\* del self.sensors_by_name[name]; del self.sensors_by_id[sensor_id];
\* return self.request('DELETE', ...)
sensor_dropped(h, key, name, o) ==
    LET b == h.bridge
    IN  IF name.type # "str" \/ name.s \notin DOMAIN b.sensors_by_name
        THEN swallowed(h)
        ELSE LET c == [b EXCEPT
                          !.sensors_by_name = Remove(@, name.s),
                          !.sensors_by_id = Remove(@, key)]
                 r == send(b.ip, h.g, "DELETE",
                           SensorPath(b, KeyText(key)), Null, o)
             IN  IF r.exc # NoExc THEN swallowed(Held(c, h.heap, r))
                 ELSE Held(c, h.heap, [r EXCEPT !.result = JsonResult(o.json)])

\* name = self.sensors_by_id[sensor_id].name, and the rest of the try block
sensor_named(h, key, ref, o1, o) ==
    LET x == sensor_name(h.bridge, Sensing(h.heap[ref]), o1)
        g == [h.g EXCEPT !.log = @ \o x.log, !.exc = x.exc]
        heap == [h.heap EXCEPT ![ref] = x.sensor]
    IN  IF x.exc # NoExc THEN swallowed(Held(h.bridge, heap, g))
        ELSE sensor_dropped(Held(h.bridge, heap, g), key, x.result, o)

\* delete_sensor(sensor_id), o1 the outcome of the read of the name and o
\* that of the DELETE
delete_sensor_cached(h, key, o1, o) ==
    IF key \notin DOMAIN h.bridge.sensors_by_id THEN swallowed(h)
    ELSE sensor_named(h, key, h.bridge.sensors_by_id[key], o1, o)

DeleteOutcomes ==
    {Returns(PutResult(<<Updated>>)), Raises("PhueRequestTimeout")}

DeleteSensor(key, o1, o) ==
    LET h == delete_sensor_cached(Held(bridge, proxies, Started), key, o1, o)
    IN  /\ call = Idle
        /\ bridge.exists
        /\ bridge' = h.bridge
        /\ proxies' = h.heap
        /\ call' = [op |-> "delete_sensor", arg |-> key, before |-> bridge,
                    read |-> o1, outcome |-> o, log |-> h.g.log,
                    exc |-> h.g.exc, result |-> h.g.result]
        /\ UNCHANGED <<file, saved, maps, pc, now>>

\* the sensors of the bridge, by the ids a caller deletes them with
SensorKeys == {Number(7), Number(8)}

\* the bridge reports the name of a sensor, or the request fails
SensorNameOutcomes ==
    {Returns(SensorData(n, "Philips", FALSE)) : n \in SensorNames}
        \cup {Raises("PhueRequestTimeout")}

NextDeletes ==
    \/ /\ call = Idle
       /\ Len(proxies) < MaxSensors
       /\ \E mode \in {"id", "name"}, o1 \in SensorListOutcomes :
             GetSensorObjects(mode, o1)
    \/ /\ call = Idle
       /\ \E key \in SensorKeys, o1 \in SensorNameOutcomes,
             o \in DeleteOutcomes :
             DeleteSensor(key, o1, o)
    \/ Proceed

SpecDeletes == InitSensors /\ [][NextDeletes]_vars

IsDelete == call.op = "delete_sensor"

Deletes == Count(call.log, "DELETE")

\* the sensor of the call is in neither cache
Uncached ==
    /\ call.arg \notin DOMAIN bridge.sensors_by_id
    /\ \A n \in DOMAIN bridge.sensors_by_name :
          proxies[bridge.sensors_by_name[n]].sensor_id # call.arg

\* C37: delete_sensor(id) sends one DELETE for the sensor and leaves the
\* sensor in neither cache, whether the caches were populated or not; and
\* the caches change only in a call that sent the DELETE.
C37_Original ==
    IsDelete
        => /\ Deletes = 1
           /\ call.log[Len(call.log)].address
                  = SensorPath(bridge, KeyText(call.arg))
           /\ Uncached
           /\ bridge # call.before => Deletes = 1

(***************************************************************************)
(* RemoteToken: the token pair of a RemoteBridge and its expiry.  Times    *)
(* are minutes of the clock; the API grants lifetimes in seconds, taken    *)
(* here in whole minutes.                                                  *)
(***************************************************************************)

\* the latest time of the clock
MaxTime == 60

\* timedelta(minutes=30) of refresh_required
RefreshMargin == 30

\* the token object: the pair and the times at which each half expires
TokenPair(access, refresh, access_exp, refresh_exp) ==
    [set |-> TRUE, access_token |-> access, refresh_token |-> refresh,
     access_token_exp |-> access_exp, refresh_token_exp |-> refresh_exp]

\* what the API does with a refresh: it grants a new pair with lifetimes, it
\* answers 200 with blank values (a query error), or the request for the
\* nonce fails
Granted(access, access_in, refresh_in) ==
    [kind |-> "granted", access_token |-> access, refresh_token |-> "r1",
     access_token_expires_in |-> access_in,
     refresh_token_expires_in |-> refresh_in]

Denied == [kind |-> "blank", access_token |-> None, refresh_token |-> None,
           access_token_expires_in |-> 0, refresh_token_expires_in |-> 0]

NoNonce == [Denied EXCEPT !.kind = "timeout"]

Grants ==
    {Granted(a, i, 20) : a \in {"a1", "a2"}, i \in {10, 40}}
        \cup {Denied, NoNonce}

\* a call of bearer in progress
Bearing(t) == [token |-> t, log |-> <<>>, exc |-> NoExc, result |-> None]

\* a faulty test that lets an expired pair pass
valid_ever(t, time) == TRUE

\* RemoteToken.valid
valid(t, time) == t.refresh_token_exp > time

\* RemoteToken.refresh_required
refresh_required(t, time) == ~(t.access_token_exp - RefreshMargin > time)

\* __parse_token_json__: the new pair, expiring the granted time from now
parsed(x, grant, time) ==
    IF grant.kind # "granted"
    THEN [x EXCEPT !.exc = Exc("PhueAuthorisationError", None)]
    ELSE [x EXCEPT !.token =
              TokenPair(grant.access_token, grant.refresh_token,
                        time + grant.access_token_expires_in,
                        time + grant.refresh_token_expires_in)]

\* the requests of a refresh: one for the nonce, one for the new pair
refreshed(x, grant, time) ==
    IF grant.kind = "timeout"
    THEN [x EXCEPT !.log = Append(@, "nonce"),
                   !.exc = Exc("TimeoutError", None)]
    ELSE parsed([x EXCEPT !.log = @ \o <<"nonce", "refresh">>], grant, time)

\* RemoteToken.refresh(force)
refresh(x, force, grant, time) ==
    IF ~valid(x.token, time)
    THEN [x EXCEPT !.exc = Exc("PhueTokenExpired", None)]
    ELSE IF force \/ refresh_required(x.token, time)
    THEN refreshed(x, grant, time)
    ELSE x

\* 'Bearer {}'.format(self.access_token)
formatted(x) ==
    IF x.exc # NoExc THEN x
    ELSE [x EXCEPT !.result = "Bearer " \o x.token.access_token]

\* RemoteToken.bearer(); the clock is read at one time throughout the call
token_bearer(x, grant, time) ==
    IF valid(x.token, time) THEN formatted(refresh(x, FALSE, grant, time))
    ELSE [x EXCEPT !.exc = Exc("PhueTokenExpired", None)]

\* self.token.bearer(), as request evaluates it for its headers
Bearer(grant) ==
    LET x == token_bearer(Bearing(bridge.token), grant, now)
    IN  /\ call = Idle
        /\ bridge.exists
        /\ bridge' = [bridge EXCEPT !.token = x.token]
        /\ call' = [op |-> "bearer", time |-> now, before |-> bridge.token,
                    grant |-> grant, log |-> x.log, exc |-> x.exc,
                    result |-> x.result]
        /\ UNCHANGED <<file, saved, proxies, maps, pc, now>>

\* time passes
Tick(minutes) ==
    /\ call = Idle
    /\ now + minutes <= MaxTime
    /\ now' = now + minutes
    /\ UNCHANGED <<file, bridge, saved, proxies, maps, pc, call>>

\* a RemoteBridge whose token was granted at time 0
InitToken ==
    /\ file = FileOf("missing")
    /\ saved = NoSave
    /\ proxies = <<>>
    /\ maps = <<>>
    /\ pc = None
    /\ now = 0
    /\ call = Idle
    /\ \E access_in \in {10, 40} :
          bridge = [RemoteBridge EXCEPT
                       !.token = TokenPair("a0", "r0", access_in, 20)]

NextToken ==
    \/ /\ call = Idle
       /\ \E grant \in Grants : Bearer(grant)
    \/ \E minutes \in {1, 9} : Tick(minutes)
    \/ Proceed

SpecToken == InitToken /\ [][NextToken]_vars

IsBearer == call.op = "bearer"

\* the call asked the API for a new pair
Refreshes == IsBearer /\ call.log # <<>>

\* the refresh token has expired at the time of the call
Expired == IsBearer /\ ~(call.before.refresh_token_exp > call.time)

\* the access token has expired or expires within the margin
Stale == IsBearer /\ call.before.access_token_exp - call.time <= RefreshMargin

copied(b, x, o) ==
    IF x.exc # NoExc THEN x ELSE set_colortemp_k(b, x, x.result.n, o)

\* light.colortemp_k = light.colortemp_k, v the value of 'ct' in the resource
CopyColortempK(p, o2, v, o) ==
    Access(p, "colortemp_k=colortemp_k", v,
           copied(bridge, get_colortemp_k(bridge, Acting(proxies[p]), o2, v),
                  o))

\* the mireds the bridge reports: the range of the lamps, and around it
MiredsReported == {Number(m) : m \in {0} \cup (MinMireds - 2)..(MaxMireds + 2)}

NextMireds ==
    \/ /\ call = Idle
       /\ \E o2 \in ReadOutcomes, v \in MiredsReported, o \in PutOutcomes :
             CopyColortempK(1, o2, v, o)
    \/ Proceed

SpecMireds == InitProxy /\ [][NextMireds]_vars

Copies == call.op = "colortemp_k=colortemp_k"

\* the writes of the copy
CopyPuts == {i \in 1..Len(call.log) : call.log[i].mode = "PUT"}

\* C39: a copy of the Kelvin view made while the bridge reports m mireds,
\* m in [154, 500], writes 'ct' with m again once the read has come back,
\* and the Kelvin value it read, the integer nearest to 1e6 / m, lies in
\* [2000, 6500], where the setter does not clamp.
C39_MiredsRoundTrip ==
    (Copies /\ call.value.n >= 154 /\ call.value.n <= 500)
    => /\ \A i \in CopyPuts :
             /\ call.log[i].data.parameter = "ct"
             /\ call.log[i].data.value = call.value
             /\ call.result.n >= 2000
             /\ call.result.n <= 6500
             /\ Nearest(call.result.n, 1000000, call.value.n)
       /\ call.exc = NoExc
             => /\ Cardinality(CopyPuts) = 1
                /\ proxies[call.ref]._colortemp = call.value

C39_Witness ==
    /\ Copies
    /\ call.value = Number(154)
    /\ call.exc = NoExc
    /\ Len(call.log) = 2
    /\ call.log[2].mode = "PUT"
    /\ call.log[2].data.value = Number(154)
    /\ call.result = Number(6494)
    /\ call.warnings = 0

====
